---- MODULE Spec2Model ----
(***************************************************************************)
(* A model of the duplicate-detection core of process-media:               *)
(*   - ImageAnalysisCache and its per-directory registry                   *)
(*     (analyze_photo_quality.py),                                         *)
(*   - the cache consumers get_exif_date / batch_extract_exif_dates        *)
(*     (photo_triage.py),                                                  *)
(*   - scan_for_duplicates (analyze_photo_quality.py).                     *)
(* Python's None is the string "None"; every cached value is a string so   *)
(* that a value can be compared with None.                                 *)
(***************************************************************************)
EXTENDS Integers, Sequences, FiniteSets, TLC

VARIABLES
    fstat,      \* the file system: path -> [exists, mtime, size]
    inst,       \* the ImageAnalysisCache instance: [cache, dirty]
    disk,       \* the instance's .analysis_cache.json: [state, content]
    pc,         \* "run", "saving" (inside save()'s with-block) or "crashed"
    ret,        \* the last call: [op, path, value, ran]
    lastSet,    \* history: path -> the most recent successful set on it
    setAt,      \* history: path -> field -> stat at which the value in memory was stored
    lastSaved,  \* history: the store written by the last completed save
    unsaved,    \* history: a set succeeded since the load or the last completed save
    registry,   \* _analysis_caches: key -> index of the instance in `instances`
    instances,  \* the ImageAnalysisCache objects constructed so far: [cache_path]
    regRet,     \* the last get_analysis_cache call: [directory, instance]
    content,    \* scan: path -> what the file holds (fixed: the files are unchanged)
    threshold,  \* scan: the hamming_threshold argument
    run,        \* scan: 1 for the first scan_for_duplicates, 2 for the second
    spc,        \* scan: "idle", "hashing", "comparing" or "done"
    results,    \* scan: the results dict
    file_hashes,        \* scan: list of [path, md5, phash]
    pending,            \* scan: the hashing futures that have not completed
    unique_by_md5,      \* scan: list of [path, phash], one per distinct md5
    chunks,             \* scan: the comparison futures that have not completed
    all_similar_pairs,  \* scan: list of <<i, j>>
    prev,       \* history: the group membership the first scan returned
    hargs,      \* hamming_distance: the two hashes <<hash1, hash2>>
    hret,       \* hamming_distance: results of (hash1, hash2) and then (hash2, hash1)
    cq_args,    \* compare_quality: [source, existing], two QualityInfo
    cq_ret,     \* compare_quality: None before the call, then the outcome
    organized,  \* find_duplicate: organized path -> what the file is (a FileKinds member)
    source,     \* find_duplicate: the source file [name, kind]
    file_index, \* DuplicateDetector.file_index: list of [base_name, paths]
    duration_cache,  \* DuplicateDetector._duration_cache: the paths with a valid entry
    size_tolerance,  \* DuplicateDetector.size_tolerance, in percent
    prober,     \* the external ffprobe: "answers" or "silent" (it never exits)
    fpc,        \* find_duplicate: "call", "loop" or "done"
    cand,       \* find_duplicate: index of the next candidate of the loop
    locals,     \* find_duplicate: [candidates, source_size, is_video, source_duration]
    fd_ret,     \* find_duplicate: None before the return, then the outcome
    examined,   \* history: the candidates the loop has taken, in order
    probed,     \* history: the files whose size was read or that ffprobe was run on
    photo,      \* blur: path -> what the image file holds, [blur, density]
    bcall,      \* blur: the call in progress, [fn, use_texture_filter, phase]
    futures,    \* blur: the files submitted to the pool whose worker has not run
    completed,  \* blur: the worker results as_completed has not yielded yet
    blur_scores,     \* blurry_with_context: path -> blur score
    edge_densities,  \* blurry_with_context: path -> edge density
    bret,       \* blur: the value the call returns (under construction until "done")
    cache_log,  \* history: the cache accesses so far, <<process, method, path>>
    dry_run,        \* process_file: the dry_run argument
    creation_date,  \* process_file: what get_creation_date gives for the source
    dest_taken,     \* process_file: the organized file at dest_folder / filename, or None
    placed,         \* process_file: where the source file is now
    pf_ret          \* process_file: NoReturn before the return, then [code, action]

cacheVars == <<fstat, inst, disk, pc, ret, lastSet, setAt, lastSaved, unsaved>>

regVars == <<registry, instances, regRet>>

scanVars == <<content, threshold, run, spc, results, file_hashes, pending,
              unique_by_md5, chunks, all_similar_pairs, prev>>

fnVars == <<hargs, hret, cq_args, cq_ret>>

findVars == <<organized, source, file_index, duration_cache, size_tolerance, prober,
              fpc, cand, locals,
              fd_ret, examined, probed>>

blurVars == <<photo, bcall, futures, completed, blur_scores, edge_densities, bret,
              cache_log>>

procVars == <<dry_run, creation_date, dest_taken, placed, pf_ret>>

dupVars == <<fnVars, findVars, blurVars, procVars>>

vars == <<cacheVars, regVars, scanVars, dupVars>>

----------------------------------------------------------------------------
(* Bounds and value domains *)

None == "None"

\* mtimes run over 1..MaxMtime
MaxMtime == 2

Files == {"a.jpg", "b.jpg", "c.jpg"}
\* the path the cache API is exercised on
ApiPaths == {"a.jpg"}
Sizes == {1, 2}

BlurScores == {"12.5", "180.0"}
Md5s == {"md5x"}
Phashes == {"3"}
ExifZero == "0"
ExifDates == {ExifZero, "1700000000"}

Fields == {"blur", "hashes", "exif_date"}

----------------------------------------------------------------------------
(* ImageAnalysisCache *)

EmptyStore == [k \in {} |-> None]

StatPair(st) == <<st.mtime, st.size>>

\* _is_valid: stat failure (OSError) is "invalid"
is_valid_mtime_only(st, entry) ==
    st.exists /\ entry.mtime = st.mtime

is_valid(st, entry) ==
    /\ st.exists
    /\ entry.mtime = st.mtime
    /\ entry.size = st.size

get_blur(self, fs, key) ==
    IF key \notin DOMAIN self.cache THEN None
    ELSE IF ~is_valid(fs[key], self.cache[key]) THEN None
    ELSE self.cache[key].blur

\* Python truthiness of a cached hash: None and "" are falsy
Truthy(v) == v # None /\ v # ""

\* get_hashes returns a dict with 'md5' and 'phash', or None; the None return
\* is the record NoHashes, so that both returns have one type
NoHashes == [md5 |-> None, phash |-> None]

get_hashes(self, fs, key) ==
    IF key \notin DOMAIN self.cache THEN NoHashes
    ELSE IF ~is_valid(fs[key], self.cache[key]) THEN NoHashes
    ELSE IF Truthy(self.cache[key].md5) /\ Truthy(self.cache[key].phash)
         THEN [md5 |-> self.cache[key].md5, phash |-> self.cache[key].phash]
         ELSE NoHashes

get_exif_date_falsy(self, fs, key) ==
    IF key \notin DOMAIN self.cache THEN None
    ELSE IF ~is_valid(fs[key], self.cache[key]) THEN None
    ELSE IF self.cache[key].exif_date = ExifZero THEN None
    ELSE self.cache[key].exif_date

get_exif_date(self, fs, key) ==
    IF key \notin DOMAIN self.cache THEN None
    ELSE IF ~is_valid(fs[key], self.cache[key]) THEN None
    ELSE self.cache[key].exif_date

\* a new entry holds the stat pair and the one field that was set; a field
\* that is no key of the entry reads as None (dict.get)
NewEntry(st) ==
    [mtime |-> st.mtime, size |-> st.size,
     blur |-> None, md5 |-> None, phash |-> None, exif_date |-> None]

set_blur_replace(self, fs, key, blur_score) ==
    IF ~fs[key].exists THEN self
    ELSE [cache |-> (key :> [NewEntry(fs[key]) EXCEPT !.blur = blur_score]) @@ self.cache,
          dirty |-> TRUE]

set_blur(self, fs, key, blur_score) ==
    IF ~fs[key].exists THEN self
    ELSE IF key \in DOMAIN self.cache
    THEN [cache |-> [self.cache EXCEPT ![key].mtime = fs[key].mtime,
                                       ![key].size = fs[key].size,
                                       ![key].blur = blur_score],
          dirty |-> TRUE]
    ELSE [cache |-> (key :> [NewEntry(fs[key]) EXCEPT !.blur = blur_score]) @@ self.cache,
          dirty |-> TRUE]

set_hashes(self, fs, key, md5_hash, phash) ==
    IF ~fs[key].exists THEN self
    ELSE IF key \in DOMAIN self.cache
    THEN [cache |-> [self.cache EXCEPT ![key].mtime = fs[key].mtime,
                                       ![key].size = fs[key].size,
                                       ![key].md5 = md5_hash,
                                       ![key].phash = phash],
          dirty |-> TRUE]
    ELSE [cache |-> (key :> [NewEntry(fs[key]) EXCEPT !.md5 = md5_hash, !.phash = phash])
                    @@ self.cache,
          dirty |-> TRUE]

set_exif_date(self, fs, key, timestamp) ==
    IF ~fs[key].exists THEN self
    ELSE IF key \in DOMAIN self.cache
    THEN [cache |-> [self.cache EXCEPT ![key].mtime = fs[key].mtime,
                                       ![key].size = fs[key].size,
                                       ![key].exif_date = timestamp],
          dirty |-> TRUE]
    ELSE [cache |-> (key :> [NewEntry(fs[key]) EXCEPT !.exif_date = timestamp])
                    @@ self.cache,
          dirty |-> TRUE]

\* _load: a missing file leaves the empty dict of __init__; a file that does
\* not parse (JSONDecodeError) gives the empty dict
load(d) == IF d.state = "ok" THEN d.content ELSE EmptyStore

\* __init__: cache = {}, dirty = False, then _load()
NewInstance(d) == [cache |-> load(d), dirty |-> FALSE]

\* save(), first half: open(cache_path, 'w') truncates the file
save_open(d) == [state |-> "partial", content |-> EmptyStore]

\* save(), second half: json.dump wrote the whole dict; dirty = False
save_dump_keeps_dirty(self) == self

save_dump(self) == [self EXCEPT !.dirty = FALSE]

----------------------------------------------------------------------------
(* History bookkeeping (no part of the program) *)

NoSet == [field |-> "none", value |-> None, stat |-> <<0, 0>>]
NoneAt == [f \in Files |-> [fld \in Fields |-> <<0, 0>>]]

NoneOf(field) == IF field = "hashes" THEN NoHashes ELSE None

\* get(path, field)
Get(field, self, fs, key) ==
    CASE field = "blur" -> get_blur(self, fs, key)
      [] field = "hashes" -> get_hashes(self, fs, key)
      [] field = "exif_date" -> get_exif_date(self, fs, key)

Call(op, path, value, ran) == [op |-> op, path |-> path, value |-> value, ran |-> ran]

SetOps == {"set_blur", "set_hashes", "set_exif_date"}

\* what a set of `field` on `paths` adds to lastSet and setAt
NoteSets(paths, field, valueOf(_)) ==
    /\ lastSet' = [f \in Files |->
                     IF f \in paths /\ fstat[f].exists
                     THEN [field |-> field, value |-> valueOf(f), stat |-> StatPair(fstat[f])]
                     ELSE lastSet[f]]
    /\ setAt' = [f \in Files |->
                   IF f \in paths /\ fstat[f].exists
                   THEN [setAt[f] EXCEPT ![field] = StatPair(fstat[f])]
                   ELSE setAt[f]]

----------------------------------------------------------------------------
(* The process-wide registry of caches *)

\* the process runs in /home/u, which holds the directory photos
DirectoryArgs ==
    {None, ".", "/home/u", "photos", "./photos", "photos/", "/home/u/photos"}

\* str(Path(directory)), or str(Path.cwd()) for None: pathlib drops a leading
\* "./" and a trailing "/", and does not make a path absolute
PathStr(directory) ==
    CASE directory = None -> "/home/u"
      [] directory = "./photos" -> "photos"
      [] directory = "photos/" -> "photos"
      [] OTHER -> directory

\* the directory a key designates
DirOf(key) ==
    CASE key \in {".", "/home/u"} -> "/home/u"
      [] key \in {"photos", "/home/u/photos"} -> "/home/u/photos"

ANALYSIS_CACHE_FILE == ".analysis_cache.json"

\* the file that directory / ANALYSIS_CACHE_FILE names
CacheFileOf(cache_path) == <<DirOf(cache_path.directory), cache_path.name>>

RegistryInit ==
    /\ registry = EmptyStore
    /\ instances = <<>>
    /\ regRet = [directory |-> None, instance |-> 0]

get_analysis_cache(directory) ==
    LET key == PathStr(directory) IN
    /\ IF key \notin DOMAIN registry
       THEN /\ instances' = Append(instances,
                    [cache_path |-> [directory |-> key, name |-> ANALYSIS_CACHE_FILE]])
            /\ registry' = (key :> (Len(instances) + 1)) @@ registry
       ELSE UNCHANGED <<registry, instances>>
    /\ regRet' = [directory |-> directory, instance |-> registry'[key]]

GetAnalysisCache(directory) ==
    /\ get_analysis_cache(directory)
    /\ UNCHANGED <<cacheVars, scanVars, dupVars>>

RegistryNext == \E d \in DirectoryArgs : GetAnalysisCache(d)

----------------------------------------------------------------------------
(* Hashing *)

\* What a file can hold. x0, x1, x3 and xe are images whose perceptual hashes
\* (one hex digit: hash_size = 2) are 0, 1, 3 and e; y0 is another encoding
\* with the perceptual hash of x0; bad is a file no decoder reads
\* (compute_phash returns None); unreadable is a file that open() refuses.
Kinds == {"x0", "x1", "x3", "xe", "y0", "bad", "unreadable"}

compute_md5(kind) ==
    CASE kind = "x0" -> "m0" [] kind = "x1" -> "m1" [] kind = "x3" -> "m3"
      [] kind = "xe" -> "me" [] kind = "y0" -> "my" [] kind = "bad" -> "mb"

compute_phash(kind) ==
    CASE kind = "x0" -> "0" [] kind = "x1" -> "1" [] kind = "x3" -> "3"
      [] kind = "xe" -> "e" [] kind = "y0" -> "0" [] kind = "bad" -> None

\* _compute_file_hashes: (file_path, md5, phash, error_message)
compute_file_hashes(file_path, kind) ==
    IF kind = "unreadable"
    THEN [path |-> file_path, md5 |-> None, phash |-> None, error |-> "PermissionError"]
    ELSE [path |-> file_path, md5 |-> compute_md5(kind), phash |-> compute_phash(kind),
          error |-> None]

\* int(hash, 16)
HexInt(h) ==
    CASE h = "0" -> 0 [] h = "1" -> 1 [] h = "2" -> 2 [] h = "3" -> 3
      [] h = "4" -> 4 [] h = "5" -> 5 [] h = "6" -> 6 [] h = "7" -> 7
      [] h = "8" -> 8 [] h = "9" -> 9 [] h = "a" -> 10 [] h = "b" -> 11
      [] h = "c" -> 12 [] h = "d" -> 13 [] h = "e" -> 14 [] h = "f" -> 15

RECURSIVE Xor(_, _)
Xor(a, b) ==
    IF a = 0 /\ b = 0 THEN 0
    ELSE (((a % 2) + (b % 2)) % 2) + 2 * Xor(a \div 2, b \div 2)

\* bin(n).count('1')
RECURSIVE CountOnes(_)
CountOnes(n) == IF n = 0 THEN 0 ELSE (n % 2) + CountOnes(n \div 2)

\* float('inf'): above every threshold
Infinity == 1000

\* a distance that reads a missing second hash as the hash 0
hamming_distance_none_as_zero(hash1, hash2) ==
    IF hash1 = None THEN Infinity
    ELSE CountOnes(Xor(HexInt(hash1), IF hash2 = None THEN 0 ELSE HexInt(hash2)))

hamming_distance(hash1, hash2) ==
    IF hash1 = None \/ hash2 = None THEN Infinity
    ELSE CountOnes(Xor(HexInt(hash1), HexInt(hash2)))

----------------------------------------------------------------------------
(* scan_for_duplicates: the pure parts *)

MAX_PARALLEL_WORKERS == 10

\* The source keeps at least 100 images in a chunk; the model keeps at least
\* ChunkFloor, so that a scan of three images is split into several chunks.
ChunkFloor == 1

Max(a, b) == IF a >= b THEN a ELSE b
Min(a, b) == IF a <= b THEN a ELSE b

SeqToSet(q) == {q[i] : i \in 1..Len(q)}

NoResults ==
    [exact_duplicates |-> EmptyStore, similar_groups |-> <<>>, unique |-> <<>>,
     errors |-> <<>>, total |-> 0, cached |-> 0, computed |-> 0]

\* group membership: the sets of paths, whatever the order of groups and members
Membership(r) ==
    [exact |-> {SeqToSet(r.exact_duplicates[m]) : m \in DOMAIN r.exact_duplicates},
     similar |-> {SeqToSet(r.similar_groups[i]) : i \in 1..Len(r.similar_groups)},
     unique |-> SeqToSet(r.unique)]

NoMembership == Membership(NoResults)

\* the hashing result is an error
hash_failed_error_only(res) == res.error # None

hash_failed(res) == res.error # None \/ ~Truthy(res.phash)

\* md5_groups, a dict in insertion order: a list of [md5, files]
RECURSIVE md5_groups_of(_, _)
md5_groups_of(groups, hashes) ==
    IF hashes = <<>> THEN groups
    ELSE LET h == Head(hashes)
             file == [path |-> h.path, phash |-> h.phash]
             at == {i \in 1..Len(groups) : groups[i].md5 = h.md5}
         IN md5_groups_of(
              IF at = {}
              THEN Append(groups, [md5 |-> h.md5, files |-> <<file>>])
              ELSE LET i == CHOOSE k \in at : TRUE
                   IN [groups EXCEPT ![i].files = Append(@, file)],
              Tail(hashes))

Paths(files) == [i \in 1..Len(files) |-> files[i].path]

exact_duplicates_of(groups) ==
    LET dup == {i \in 1..Len(groups) : Len(groups[i].files) > 1} IN
    [m \in {groups[i].md5 : i \in dup} |->
        Paths(groups[CHOOSE i \in dup : groups[i].md5 = m].files)]

\* every file of every group
RECURSIVE all_files_of(_)
all_files_of(groups) ==
    IF groups = <<>> THEN <<>> ELSE Head(groups).files \o all_files_of(Tail(groups))

\* a comparison list that keeps the exact duplicates
unique_by_md5_of_every_file(groups) == all_files_of(groups)

\* the first file of each group, in the order of the groups
unique_by_md5_of(groups) == [i \in 1..Len(groups) |-> groups[i].files[1]]

chunk_size_of(n) == Max(ChunkFloor, n \div (MAX_PARALLEL_WORKERS * 4))

\* the (start, end) of the chunks, for start in range(0, n, chunk_size)
chunks_of_overlapping(n) ==
    {[start |-> st, end |-> Min(st + chunk_size_of(n) + 1, n)] :
        st \in {k \in 0..(n - 1) : k % chunk_size_of(n) = 0}}

chunks_of(n) ==
    {[start |-> st, end |-> Min(st + chunk_size_of(n), n)] :
        st \in {k \in 0..(n - 1) : k % chunk_size_of(n) = 0}}

\* _compare_phash_chunk: the loops over i in range(start_i, end_i) and
\* j in range(i + 1, len(phashes)), from the iteration (i, j) on; indices
\* count from 0 as in the source, phashes[i + 1] is the source's phashes[i]
RECURSIVE chunk_pairs(_, _, _, _, _)
chunk_pairs(i, j, end_i, phashes, thr) ==
    IF i >= end_i THEN <<>>
    ELSE IF j >= Len(phashes) THEN chunk_pairs(i + 1, i + 2, end_i, phashes, thr)
    ELSE (IF hamming_distance(phashes[i + 1], phashes[j + 1]) <= thr
          THEN <<<<i, j>>>> ELSE <<>>)
         \o chunk_pairs(i, j + 1, end_i, phashes, thr)

compare_phash_chunk(start_i, end_i, phashes, thr) ==
    chunk_pairs(start_i, start_i + 1, end_i, phashes, thr)

\* find(x) with its path compression: the parent list after the call, and the root
RECURSIVE find(_, _)
find(parent, x) ==
    IF parent[x] # x
    THEN LET r == find(parent, parent[x])
         IN [parent |-> [r.parent EXCEPT ![x] = r.root], root |-> r.root]
    ELSE [parent |-> parent, root |-> x]

union_without_find(parent, x, y) ==
    IF x # y THEN [parent EXCEPT ![x] = y] ELSE parent

\* union(x, y): the parent list after the call
union(parent, x, y) ==
    LET px == find(parent, x)
        py == find(px.parent, y)
    IN IF px.root # py.root
       THEN [py.parent EXCEPT ![px.root] = py.root]
       ELSE py.parent

RECURSIVE apply_unions(_, _)
apply_unions(parent, pairs) ==
    IF pairs = <<>> THEN parent
    ELSE apply_unions(union(parent, Head(pairs)[1], Head(pairs)[2]), Tail(pairs))

\* the groups dict, in insertion order: a list of [root, paths], filled by the
\* loop over i in range(n) from iteration i on
RECURSIVE collect_groups(_, _, _, _)
collect_groups(parent, groups, i, reps) ==
    IF i >= Len(reps) THEN groups
    ELSE LET r == find(parent, i)
             at == {k \in 1..Len(groups) : groups[k].root = r.root}
         IN collect_groups(
              r.parent,
              IF at = {}
              THEN Append(groups, [root |-> r.root, paths |-> <<reps[i + 1].path>>])
              ELSE LET k == CHOOSE g \in at : TRUE
                   IN [groups EXCEPT ![k].paths = Append(@, reps[i + 1].path)],
              i + 1, reps)

RECURSIVE similar_groups_of(_)
similar_groups_of(groups) ==
    IF groups = <<>> THEN <<>>
    ELSE (IF Len(Head(groups).paths) > 1 THEN <<Head(groups).paths>> ELSE <<>>)
         \o similar_groups_of(Tail(groups))

RECURSIVE unique_of(_)
unique_of(groups) ==
    IF groups = <<>> THEN <<>>
    ELSE (IF Len(Head(groups).paths) > 1 THEN <<>> ELSE <<Head(groups).paths[1]>>)
         \o unique_of(Tail(groups))

----------------------------------------------------------------------------
(* duplicate_detector.py: QualityInfo and compare_quality *)

\* codec names as ffprobe and encoders spell them
Codecs == {"hevc", "HEVC", "h264"}
\* widths and heights; 10 x 1 against 11 x 1 is exactly 10% more pixels
Widths == {0, 10, 11, 12}
Heights == {0, 1}
Bitrates == {0, 8}
\* durations in tenths of a second
QualityDurations == {1200}
\* file sizes: 6/5 is the ratio 1.20, 10/5 the ratio 2.0, 83/100 the ratio 0.83
FileSizes == {0, 5, 6, 10, 13, 25, 83, 100}

QualityInfo == [codec : Codecs, width : Widths, height : Heights, bitrate : Bitrates,
                duration : QualityDurations, file_size : FileSizes]

\* QualityInfo.pixels
pixels(q) == q.width * q.height

\* str.lower on a codec name
lower(codec) == IF codec = "HEVC" THEN "hevc" ELSE codec

hevc_codecs == {"hevc", "h265", "libx265"}

\* f"{x:.1f}" of the quotient n / d: the number of tenths, rounded
Tenths(n, d) == (20 * n + d) \div (2 * d)

\* the value a call has not returned yet
NoReturn == [returned |-> FALSE]

\* return prefer_existing, reason; the reason is the text of the f-string and the
\* values it interpolates
Decision(prefer_existing, text, values) ==
    [returned |-> TRUE, raised |-> None, prefer_existing |-> prefer_existing,
     reason |-> [text |-> text, values |-> values]]

Raise(exception) == [returned |-> TRUE, raised |-> exception]

\* existing.file_size / source.file_size if source.file_size > 0 else 1, as the
\* fraction <<numerator, denominator>>
size_ratio_of(src, existing) ==
    IF src.file_size > 0 THEN <<existing.file_size, src.file_size>> ELSE <<1, 1>>

\* the size rule with its default branch returning before the thresholds
compare_sizes_default_first(src, existing) ==
    Decision(TRUE, "Similar quality - keeping existing organized file", <<>>)

\* lines 194-216: the size rule
compare_sizes(src, existing) ==
    LET size_ratio == size_ratio_of(src, existing)
        n == size_ratio[1]
        d == size_ratio[2]
    IN
    IF n > 2 * d
    THEN Decision(FALSE, "Existing is {}x larger with same resolution - likely re-encoded bloat",
                  <<Tenths(n, d)>>)
    ELSE IF 2 * n < d
    THEN (IF n = 0 THEN Raise("ZeroDivisionError")
          ELSE Decision(TRUE, "Source is {}x larger with same resolution - likely re-encoded bloat",
                        <<Tenths(d, n)>>))
    ELSE IF 100 * n > 120 * d
    THEN Decision(FALSE, "Existing is {}x larger with same resolution - prefer smaller source",
                  <<Tenths(n, d)>>)
    ELSE IF 100 * n < 83 * d
    THEN Decision(TRUE, "Source is {}x larger with same resolution - prefer smaller existing",
                  <<Tenths(d, n)>>)
    ELSE Decision(TRUE, "Similar quality - keeping existing organized file", <<>>)

\* the codec rule deciding for the existing side whenever it is HEVC
compare_codecs_existing_wins(src, existing) ==
    LET source_is_hevc == lower(src.codec) \in hevc_codecs
        existing_is_hevc == lower(existing.codec) \in hevc_codecs
    IN
    IF existing_is_hevc
    THEN Decision(TRUE, "Existing uses more efficient codec ({} vs {})",
                  <<existing.codec, src.codec>>)
    ELSE IF source_is_hevc
    THEN Decision(FALSE, "Source uses more efficient codec ({} vs {})",
                  <<src.codec, existing.codec>>)
    ELSE compare_sizes(src, existing)

\* lines 180-189: the codec rule, then the size rule
compare_codecs(src, existing) ==
    LET source_is_hevc == lower(src.codec) \in hevc_codecs
        existing_is_hevc == lower(existing.codec) \in hevc_codecs
    IN
    IF source_is_hevc /\ ~existing_is_hevc
    THEN Decision(FALSE, "Source uses more efficient codec ({} vs {})",
                  <<src.codec, existing.codec>>)
    ELSE IF existing_is_hevc /\ ~source_is_hevc
    THEN Decision(TRUE, "Existing uses more efficient codec ({} vs {})",
                  <<existing.codec, src.codec>>)
    ELSE compare_sizes(src, existing)

\* compare_quality with the codec rule ahead of the resolution rule
compare_quality_codec_first(src, existing) ==
    IF lower(src.codec) \in hevc_codecs /\ lower(existing.codec) \notin hevc_codecs
    THEN Decision(FALSE, "Source uses more efficient codec ({} vs {})",
                  <<src.codec, existing.codec>>)
    ELSE IF 10 * pixels(src) > 11 * pixels(existing)
    THEN Decision(FALSE, "Source has higher resolution ({}x{} vs {}x{})",
                  <<src.width, src.height, existing.width, existing.height>>)
    ELSE IF 10 * pixels(existing) > 11 * pixels(src)
    THEN Decision(TRUE, "Existing has higher resolution ({}x{} vs {}x{})",
                  <<existing.width, existing.height, src.width, src.height>>)
    ELSE compare_codecs(src, existing)

\* x > y * 1.1 on pixel counts is 10 * x > 11 * y
compare_quality(src, existing) ==
    IF 10 * pixels(src) > 11 * pixels(existing)
    THEN Decision(FALSE, "Source has higher resolution ({}x{} vs {}x{})",
                  <<src.width, src.height, existing.width, existing.height>>)
    ELSE IF 10 * pixels(existing) > 11 * pixels(src)
    THEN Decision(TRUE, "Existing has higher resolution ({}x{} vs {}x{})",
                  <<existing.width, existing.height, src.width, src.height>>)
    ELSE compare_codecs(src, existing)

----------------------------------------------------------------------------
(* duplicate_detector.py: the pure parts of DuplicateDetector.find_duplicate *)

\* file names, as the list of their characters
NameVid1 == <<"V", "I", "D", "_", "2", "0", "2", "4", "0", "1", "0", "1", "_", "1", "2", "0", "0", "0", "0", ".", "m", "p", "4">>
NameImg1 == <<"I", "M", "G", "_", "2", "0", "2", "4", "0", "1", "0", "1", "_", "1", "2", "0", "0", "0", "0", ".", "j", "p", "g">>
NameVid2 == <<"V", "I", "D", "_", "2", "0", "2", "4", "0", "1", "0", "2", "_", "1", "2", "0", "0", "0", "0", ".", "M", "P", "4">>
\* seven digits before the underscore: no date pattern
NameShort == <<"V", "I", "D", "_", "2", "0", "2", "4", "0", "1", "0", "_", "1", "2", "0", "0", "0", "0", ".", "m", "p", "4">>
\* base names of organized files (the index keys)
BaseVid1 == <<"V", "I", "D", "_", "2", "0", "2", "4", "0", "1", "0", "1", "_", "1", "2", "0", "0", "0", "0">>
BaseCopy1 == <<"2", "0", "2", "4", "0", "1", "0", "1", "_", "1", "2", "0", "0", "0", "0", "_", "c", "o", "p", "y">>
BaseHoliday == <<"h", "o", "l", "i", "d", "a", "y">>

SourceNames == {NameVid1, NameImg1, NameVid2, NameShort}

Digits == {"0", "1", "2", "3", "4", "5", "6", "7", "8", "9"}

\* None, for a date pattern
NoPattern == <<>>

\* r'(\d{8}_\d{6})' matches at position i
PatternAt(filename, i) ==
    /\ i + 14 <= Len(filename)
    /\ \A k \in 0..7 : filename[i + k] \in Digits
    /\ filename[i + 8] = "_"
    /\ \A k \in 9..14 : filename[i + k] \in Digits

\* re.search: the leftmost match
extract_date_pattern(filename) ==
    LET starts == {i \in 1..Len(filename) : PatternAt(filename, i)} IN
    IF starts = {} THEN NoPattern
    ELSE LET i == CHOOSE j \in starts : \A k \in starts : j <= k
         IN SubSeq(filename, i, i + 14)

\* _build_date_pattern_index over the first n entries of the file index
RECURSIVE build_date_pattern_index(_, _)
build_date_pattern_index(index, n) ==
    IF n = 0 THEN <<>>
    ELSE LET rest == build_date_pattern_index(index, n - 1)
             date_pattern == extract_date_pattern(index[n].base_name)
         IN IF date_pattern = NoPattern THEN rest
            ELSE IF date_pattern \in DOMAIN rest
            THEN [rest EXCEPT ![date_pattern] = rest[date_pattern] \o index[n].paths]
            ELSE (date_pattern :> index[n].paths) @@ rest

\* a lookup that returns the files of whichever pattern the index holds
lookup_ignoring_pattern(index, date_pattern) ==
    LET date_pattern_index == build_date_pattern_index(index, Len(index)) IN
    IF DOMAIN date_pattern_index = {} THEN <<>>
    ELSE date_pattern_index[CHOOSE k \in DOMAIN date_pattern_index : TRUE]

\* self._date_pattern_index.get(date_pattern, [])
lookup(index, date_pattern) ==
    LET date_pattern_index == build_date_pattern_index(index, Len(index)) IN
    IF date_pattern \in DOMAIN date_pattern_index
    THEN date_pattern_index[date_pattern] ELSE <<>>

\* the suffix of a file name: from its last "."
RECURSIVE suffix(_)
suffix(filename) ==
    IF filename = <<>> THEN <<>>
    ELSE IF "." \in {filename[i] : i \in 2..Len(filename)}
    THEN suffix(Tail(filename))
    ELSE IF Head(filename) = "." THEN filename ELSE <<>>

\* str.lower on the characters of a suffix
lower_char(c) ==
    CASE c = "M" -> "m" [] c = "P" -> "p" [] c = "O" -> "o" [] c = "V" -> "v"
      [] OTHER -> c

\* media_utils.VIDEO_EXTENSIONS, lower-cased
VIDEO_EXTENSIONS_lower ==
    {<<".", "m", "p", "4">>, <<".", "m", "o", "v">>, <<".", "a", "v", "i">>, <<".", "m", "k", "v">>, <<".", "m", "4", "v">>, <<".", "3", "g", "p">>, <<".", "w", "m", "v">>}

is_video_name(filename) ==
    [i \in 1..Len(suffix(filename)) |-> lower_char(suffix(filename)[i])]
        \in VIDEO_EXTENSIONS_lower

\* the organized paths and the source path
Organized == {"o1", "o2"}
SourcePath == "src"

\* what a file can be: missing, empty, or a video of some size, duration (in tenths
\* of a second) and stream quality
FileKinds == {"gone", "empty", "nodur", "v500", "v498", "v450", "v900", "v900nq",
              "v500late", "v300"}

\* Path.exists
exists(kind) == kind # "gone"

\* Path.stat().st_size, in millions of bytes
st_size(kind) ==
    CASE kind = "empty" -> 0
      [] kind \in {"v500", "v500late", "nodur"} -> 500
      [] kind = "v498" -> 498
      [] kind = "v450" -> 450
      [] kind \in {"v900", "v900nq"} -> 900
      [] kind = "v300" -> 300

\* None, for a duration
NoDuration == -1

\* ffprobe format=duration: an empty or unreadable file has none
ffprobe_duration(kind) ==
    CASE kind \in {"gone", "empty", "nodur"} -> NoDuration
      [] kind \in {"v500", "v450", "v900", "v900nq", "v300"} -> 1200
      [] kind = "v498" -> 1203
      [] kind = "v500late" -> 1215

\* None, for a QualityInfo
NoQuality == [none |-> TRUE]

\* get_video_quality: None when ffprobe gives no video stream
get_video_quality(kind) ==
    IF kind \in {"gone", "empty", "nodur", "v900nq"} THEN NoQuality
    ELSE [codec |-> IF kind = "v300" THEN "h264" ELSE "hevc",
          width |-> 1920, height |-> 1080, bitrate |-> 8,
          duration |-> ffprobe_duration(kind), file_size |-> st_size(kind)]

\* DuplicateDetector.__init__ defaults: duration_tolerance = 1.0 second, in tenths;
\* size_tolerance = 0.20, in percent
duration_tolerance == 10
DefaultSizeTolerance == 20
\* the size tolerances a detector is configured with, in percent
SizeTolerances == {0, DefaultSizeTolerance, 50}

Abs(x) == IF x < 0 THEN 0 - x ELSE x

\* abs(a - b) / max(a, b) <= size_tolerance
within_size_tolerance(a, b) == 100 * Abs(a - b) <= size_tolerance * Max(a, b)

\* a test that calls every size within the tolerance exact
exact_size_is_within_tolerance(a, b) == within_size_tolerance(a, b)

\* size_diff_pct <= 0.01
exact_size(a, b) == 100 * Abs(a - b) <= Max(a, b)

DuplicateResult(is_duplicate, confidence, existing_path, prefer_existing, reason) ==
    [returned |-> TRUE, raised |-> None, is_duplicate |-> is_duplicate,
     confidence |-> confidence, existing_path |-> existing_path,
     prefer_existing |-> prefer_existing, reason |-> reason]

\* a NONE result that tells the caller to keep a file it does not name
none_result_prefers_existing(reason) == DuplicateResult(FALSE, "NONE", None, TRUE, reason)

\* lines 453-472: no date pattern, or no candidates
none_result(reason) == DuplicateResult(FALSE, "NONE", None, FALSE, reason)

\* lines 503-520 and 554-569: sizes within tolerance
size_match_result(source_size, candidate_size, candidate_path, reason) ==
    DuplicateResult(TRUE,
                    IF exact_size(source_size, candidate_size) THEN "EXACT" ELSE "HIGH",
                    candidate_path, TRUE, reason)

\* the size mismatch handing the comparator's default to a failed extraction
medium_result_prefers_source(source_quality, existing_quality, candidate_path) ==
    IF source_quality # NoQuality /\ existing_quality # NoQuality
    THEN LET verdict == compare_quality(source_quality, existing_quality) IN
         IF verdict.raised # None THEN verdict
         ELSE DuplicateResult(TRUE, "MEDIUM", candidate_path, verdict.prefer_existing,
                              "Same content, different encoding")
    ELSE DuplicateResult(TRUE, "MEDIUM", candidate_path, FALSE,
                         "Same date/duration, different size")

\* lines 521-548: sizes beyond tolerance
medium_result(source_quality, existing_quality, candidate_path) ==
    IF source_quality # NoQuality /\ existing_quality # NoQuality
    THEN LET verdict == compare_quality(source_quality, existing_quality) IN
         IF verdict.raised # None THEN verdict
         ELSE DuplicateResult(TRUE, "MEDIUM", candidate_path, verdict.prefer_existing,
                              "Same content, different encoding")
    ELSE DuplicateResult(TRUE, "MEDIUM", candidate_path, TRUE,
                         "Same date/duration, different size - keeping existing (quality analysis failed)")

\* a duration test that lets every candidate with a duration through
duration_differs_never(source_duration, candidate_duration) == FALSE

\* duration_diff > self.duration_tolerance
duration_differs(source_duration, candidate_duration) ==
    Abs(source_duration - candidate_duration) > duration_tolerance

\* lines 487-548: one candidate of a video source with a duration; NoReturn is
\* `continue`
video_candidate(source_size, source_duration, source_quality, candidate_path, candidate_size, candidate_duration, existing_quality) ==
    IF candidate_duration = NoDuration THEN NoReturn
    ELSE IF duration_differs(source_duration, candidate_duration) THEN NoReturn
    ELSE IF Min(source_size, candidate_size) = 0 THEN Raise("ZeroDivisionError")
    ELSE IF within_size_tolerance(source_size, candidate_size)
    THEN size_match_result(source_size, candidate_size, candidate_path, "Exact match")
    ELSE medium_result(source_quality, existing_quality, candidate_path)

\* lines 550-569: one candidate when the source is no video or has no duration
size_only_candidate(source_size, candidate_path, candidate_size) ==
    IF Max(source_size, candidate_size) = 0 THEN Raise("ZeroDivisionError")
    ELSE IF within_size_tolerance(source_size, candidate_size)
    THEN size_match_result(source_size, candidate_size, candidate_path, "Same date pattern")
    ELSE NoReturn

\* the final return surfacing no path
low_result_without_path(candidates) ==
    DuplicateResult(FALSE, "LOW", None, FALSE, "Date pattern matches but duration/size don't match")

\* lines 571-578
low_result(candidates) ==
    DuplicateResult(FALSE, "LOW", IF candidates # <<>> THEN candidates[1] ELSE None, FALSE,
                    "Date pattern matches but duration/size don't match")

NoLocals == [candidates |-> <<>>, source_size |-> 0, is_video |-> FALSE,
             source_duration |-> NoDuration]

\* no hamming_distance call is in progress
HammingIdle ==
    /\ hargs = <<None, None>>
    /\ hret = <<>>

\* no compare_quality call is in progress
CompareIdle ==
    /\ cq_args = [source |-> NoQuality, existing |-> NoQuality]
    /\ cq_ret = NoReturn

\* a detector over an empty tree, before any call
FindLocalsInit ==
    /\ fpc = "call"
    /\ cand = 1
    /\ locals = NoLocals
    /\ fd_ret = NoReturn
    /\ examined = <<>>
    /\ probed = {}

FindIdle ==
    /\ organized = [p \in Organized |-> "gone"]
    /\ source = [name |-> NameShort, kind |-> "gone"]
    /\ file_index = <<>>
    /\ duration_cache = {}
    /\ size_tolerance = DefaultSizeTolerance
    /\ prober = "answers"
    /\ FindLocalsInit

----------------------------------------------------------------------------
(* analyze_photo_quality.py and photo_triage.py: blur classification *)

\* a score below this is blurry
BLUR_THRESHOLD_BLURRY == 40

\* LOW_TEXTURE_EDGE_DENSITY = 0.02; edge densities are in thousandths
LOW_TEXTURE_EDGE_DENSITY == 20

\* an edge density of None
NoDensity == -1

EdgeDensities == {5, LOW_TEXTURE_EDGE_DENSITY, 300}

\* the images of the directory (c.jpg is not there)
BlurPaths == {"a.jpg", "b.jpg"}

\* what read_image_opencv, the Laplacian variance and calculate_edge_density
\* give for a file: unreadable, or a score and an edge density
Unreadable == [blur |-> None, density |-> NoDensity]

Images == {Unreadable} \cup [blur : BlurScores, density : EdgeDensities]

\* the float of a score, in tenths
tenths_of(score) == CASE score = "12.5" -> 125 [] score = "180.0" -> 1800

\* score < threshold
below(score, blur_threshold) == tenths_of(score) < 10 * blur_threshold

\* the accesses of one process to the cache, for cache_log
Accesses(who, ops, path) == {<<who, op, path>> : op \in ops}

\* calculate_blur_score: [score, edge_density] with the cache after the call
\* and the cache methods it called
calculate_blur_score_always_caches(self, fs, image, image_path, use_cache, return_texture) ==
    LET reads_cache == ~return_texture
        cached_score == IF reads_cache THEN get_blur(self, fs, image_path) ELSE None
        reads == IF reads_cache THEN {"get_blur"} ELSE {}
    IN IF cached_score # None
       THEN [score |-> cached_score, edge_density |-> NoDensity, self |-> self,
             ops |-> reads]
       ELSE IF image.blur = None
       THEN [score |-> None, edge_density |-> NoDensity, self |-> self, ops |-> reads]
       ELSE [score |-> image.blur,
             edge_density |-> IF return_texture THEN image.density ELSE NoDensity,
             self |-> set_blur(self, fs, image_path, image.blur),
             ops |-> reads \cup {"set_blur"}]

calculate_blur_score(self, fs, image, image_path, use_cache, return_texture) ==
    LET reads_cache == use_cache /\ ~return_texture
        cached_score == IF reads_cache THEN get_blur(self, fs, image_path) ELSE None
        reads == IF reads_cache THEN {"get_blur"} ELSE {}
    IN IF cached_score # None
       THEN [score |-> cached_score, edge_density |-> NoDensity, self |-> self,
             ops |-> reads]
       ELSE IF image.blur = None
       THEN [score |-> None, edge_density |-> NoDensity, self |-> self, ops |-> reads]
       ELSE [score |-> image.blur,
             edge_density |-> IF return_texture THEN image.density ELSE NoDensity,
             self |-> IF use_cache THEN set_blur(self, fs, image_path, image.blur)
                      ELSE self,
             ops |-> reads \cup (IF use_cache THEN {"set_blur"} ELSE {})]

\* is_photo_blurry: the returned dict, with the cache after the call
is_photo_blurry(self, fs, image, image_path, blur_threshold, use_texture_filter) ==
    LET r == calculate_blur_score(self, fs, image, image_path, TRUE, use_texture_filter)
        edge_density == IF use_texture_filter THEN r.edge_density ELSE NoDensity
        low_texture == edge_density # NoDensity /\ edge_density < LOW_TEXTURE_EDGE_DENSITY
        answer(is_blurry, low) ==
            [path |-> image_path, is_blurry |-> is_blurry, blur_score |-> r.score,
             edge_density |-> edge_density, low_texture |-> low,
             self |-> r.self, ops |-> r.ops]
    IN IF r.score = None THEN answer(FALSE, FALSE)
       ELSE IF use_texture_filter /\ low_texture THEN answer(FALSE, TRUE)
       ELSE answer(below(r.score, blur_threshold), low_texture)

\* _process_single_image, in a pool process that holds the copy `self` of the cache
process_single_image(self, fs, image, file_path, blur_threshold) ==
    LET r == calculate_blur_score(self, fs, image, file_path, FALSE, FALSE) IN
    [path |-> file_path, score |-> r.score, edge_density |-> NoDensity,
     status |-> IF r.score = None THEN "error"
                ELSE IF below(r.score, blur_threshold) THEN "blurry" ELSE "sharp",
     ops |-> r.ops]

\* _compute_blur_with_texture, in a pool process
compute_blur_with_texture(self, fs, image, file_path) ==
    LET r == calculate_blur_score(self, fs, image, file_path, FALSE, TRUE) IN
    [path |-> file_path, score |-> r.score, edge_density |-> r.edge_density,
     status |-> "computed", ops |-> r.ops]

\* _compute_texture_only, in a pool process
compute_texture_only(image, file_path) ==
    [path |-> file_path, score |-> None, edge_density |-> image.density,
     status |-> "texture", ops |-> {}]

\* what a worker hands back through its future
Returned(r) == [path |-> r.path, score |-> r.score, edge_density |-> r.edge_density,
                status |-> r.status]

\* scan_for_blur: the results dict, the lists as the sets of their paths
NoBlurResults == [blurry |-> {}, sharp |-> {}, errors |-> {}, total |-> 0, cached |-> 0]

\* blurry_with_context, phase 3: the cached blurry images without an edge density
needing_texture(scores, densities, blur_threshold) ==
    {p \in DOMAIN scores : below(scores[p], blur_threshold) /\ p \notin DOMAIN densities}

\* blurry_with_context, phase 4: the paths of the results list
blurry_results(scores, densities, blur_threshold, use_texture_filter) ==
    {p \in DOMAIN scores :
        /\ ~(/\ use_texture_filter
             /\ below(scores[p], blur_threshold)
             /\ p \in DOMAIN densities
             /\ densities[p] # NoDensity
             /\ densities[p] < LOW_TEXTURE_EDGE_DENSITY)
        /\ below(scores[p], blur_threshold)}

\* save_all_caches: save() of the instance, which writes when dirty
saved_disk(self, d) == IF self.dirty THEN [state |-> "ok", content |-> self.cache] ELSE d

saved_inst(self) == IF self.dirty THEN save_dump(self) ELSE self

NoFunction == [p \in {} |-> None]

BlurIdle ==
    /\ photo = [f \in BlurPaths |-> Unreadable]
    /\ bcall = [fn |-> None, use_texture_filter |-> FALSE, phase |-> "idle"]
    /\ futures = {}
    /\ completed = {}
    /\ blur_scores = NoFunction
    /\ edge_densities = NoFunction
    /\ bret = None
    /\ cache_log = {}

----------------------------------------------------------------------------
(* organize_archive.py: process_file *)

\* the branch process_file takes on the result of find_duplicate
process_file_branch_ignores_dry_run(dup_result, dry) ==
    IF dup_result.is_duplicate /\ dup_result.confidence \in {"EXACT", "HIGH"}
    THEN "skip_exact"
    ELSE IF dup_result.is_duplicate /\ dup_result.confidence = "MEDIUM"
    THEN IF dup_result.prefer_existing THEN "skip_existing" ELSE "replace"
    ELSE "move"

process_file_branch(dup_result, dry) ==
    IF dup_result.is_duplicate /\ dup_result.confidence \in {"EXACT", "HIGH"}
    THEN "skip_exact"
    ELSE IF dup_result.is_duplicate /\ dup_result.confidence = "MEDIUM"
    THEN IF dup_result.prefer_existing THEN "skip_existing"
         ELSE IF dry THEN "would_replace" ELSE "replace"
    ELSE "move"

\* the returned (result_code, action_taken)
Outcome(code, action) == [returned |-> TRUE, code |-> code, action |-> action]

\* no process_file call is in progress
ProcIdle ==
    /\ dry_run = FALSE
    /\ creation_date = None
    /\ dest_taken = None
    /\ placed = SourcePath
    /\ pf_ret = NoReturn

DupIdle == HammingIdle /\ CompareIdle /\ FindIdle /\ BlurIdle /\ ProcIdle

----------------------------------------------------------------------------
(* The cache and its file system: initial state and actions *)

\* no scan has started
ScanLocalsInit ==
    /\ run = 1
    /\ spc = "idle"
    /\ results = NoResults
    /\ file_hashes = <<>>
    /\ pending = {}
    /\ unique_by_md5 = <<>>
    /\ chunks = {}
    /\ all_similar_pairs = <<>>
    /\ prev = NoMembership

CacheStateInit ==
    /\ fstat = [f \in Files |-> [exists |-> TRUE, mtime |-> 1, size |-> 1]]
    /\ disk = [state |-> "missing", content |-> EmptyStore]
    /\ inst = NewInstance(disk)
    /\ pc = "run"
    /\ ret = Call("init", None, None, {})
    /\ lastSet = [f \in Files |-> NoSet]
    /\ setAt = NoneAt
    /\ lastSaved = EmptyStore
    /\ unsaved = FALSE

CacheInit ==
    /\ RegistryInit
    /\ DupIdle
    /\ ScanLocalsInit
    /\ content = [f \in Files |-> "x0"]
    /\ threshold = 0
    /\ CacheStateInit

\* a write to the file: the clock has advanced, or the write falls in the same
\* timestamp tick and appends
ModifyFile(f) ==
    /\ fstat[f].exists
    /\ \E m \in 1..MaxMtime, s \in Sizes :
         /\ \/ m > fstat[f].mtime
            \/ m = fstat[f].mtime /\ s > fstat[f].size
         /\ fstat' = [fstat EXCEPT ![f].mtime = m, ![f].size = s]
    /\ ret' = Call("env", None, None, {})
    /\ UNCHANGED <<inst, disk, pc, lastSet, setAt, lastSaved, unsaved, regVars, scanVars, dupVars>>

DeleteFile(f) ==
    /\ fstat[f].exists
    /\ fstat' = [fstat EXCEPT ![f].exists = FALSE]
    /\ ret' = Call("env", None, None, {})
    /\ UNCHANGED <<inst, disk, pc, lastSet, setAt, lastSaved, unsaved, regVars, scanVars, dupVars>>

CreateFile(f) ==
    /\ ~fstat[f].exists
    /\ \E m \in 1..MaxMtime, s \in Sizes :
         /\ m > fstat[f].mtime
         /\ fstat' = [fstat EXCEPT ![f] = [exists |-> TRUE, mtime |-> m, size |-> s]]
    /\ ret' = Call("env", None, None, {})
    /\ UNCHANGED <<inst, disk, pc, lastSet, setAt, lastSaved, unsaved, regVars, scanVars, dupVars>>

GetBlur(f) ==
    /\ pc = "run"
    /\ ret' = Call("get_blur", f, get_blur(inst, fstat, f), {})
    /\ UNCHANGED <<fstat, inst, disk, pc, lastSet, setAt, lastSaved, unsaved, regVars, scanVars, dupVars>>

GetHashes(f) ==
    /\ pc = "run"
    /\ ret' = Call("get_hashes", f, get_hashes(inst, fstat, f), {})
    /\ UNCHANGED <<fstat, inst, disk, pc, lastSet, setAt, lastSaved, unsaved, regVars, scanVars, dupVars>>

GetExifDate(f) ==
    /\ pc = "run"
    /\ ret' = Call("get_exif_date", f, get_exif_date(inst, fstat, f), {})
    /\ UNCHANGED <<fstat, inst, disk, pc, lastSet, setAt, lastSaved, unsaved, regVars, scanVars, dupVars>>

\* the three sets, without the bookkeeping of lastSet and setAt
DoSetBlur(f, v) ==
    /\ pc = "run"
    /\ inst' = set_blur(inst, fstat, f, v)
    /\ ret' = Call("set_blur", f, None, {})
    /\ unsaved' = (unsaved \/ fstat[f].exists)
    /\ UNCHANGED <<fstat, disk, pc, lastSaved, regVars, scanVars, dupVars>>

DoSetHashes(f, m, p) ==
    /\ pc = "run"
    /\ inst' = set_hashes(inst, fstat, f, m, p)
    /\ ret' = Call("set_hashes", f, None, {})
    /\ unsaved' = (unsaved \/ fstat[f].exists)
    /\ UNCHANGED <<fstat, disk, pc, lastSaved, regVars, scanVars, dupVars>>

DoSetExifDate(f, t) ==
    /\ pc = "run"
    /\ inst' = set_exif_date(inst, fstat, f, t)
    /\ ret' = Call("set_exif_date", f, None, {})
    /\ unsaved' = (unsaved \/ fstat[f].exists)
    /\ UNCHANGED <<fstat, disk, pc, lastSaved, regVars, scanVars, dupVars>>

SetBlur(f, v) ==
    DoSetBlur(f, v) /\ NoteSets({f}, "blur", LAMBDA p : v)

SetHashes(f, m, p) ==
    DoSetHashes(f, m, p) /\ NoteSets({f}, "hashes", LAMBDA q : [md5 |-> m, phash |-> p])

SetExifDate(f, t) ==
    DoSetExifDate(f, t) /\ NoteSets({f}, "exif_date", LAMBDA p : t)

\* photo_triage.get_exif_date: consult the cache; on a miss run exiftool on the
\* file (outcome: it fails or times out, it prints no date, it prints a date)
\* and cache what it found
ExifOutcomes == {"fail", "nodate", "date"}
ExifFound(outcome) == IF outcome = "date" THEN "1700000000" ELSE ExifZero

TriageGetExifDate(f, outcome) ==
    /\ pc = "run"
    /\ LET cached_ts == get_exif_date(inst, fstat, f) IN
       IF cached_ts # None
       THEN /\ ret' = Call("triage_get_exif_date", f,
                           IF cached_ts = ExifZero THEN None ELSE cached_ts, {})
            /\ UNCHANGED <<inst, lastSet, setAt, unsaved>>
       ELSE /\ fstat[f].exists \/ outcome = "fail"
            /\ inst' = set_exif_date(inst, fstat, f, ExifFound(outcome))
            /\ ret' = Call("triage_get_exif_date", f,
                           IF outcome = "date" THEN ExifFound(outcome) ELSE None, {f})
            /\ unsaved' = (unsaved \/ fstat[f].exists)
            /\ NoteSets({f}, "exif_date", LAMBDA p : ExifFound(outcome))
    /\ UNCHANGED <<fstat, disk, pc, lastSaved, regVars, scanVars, dupVars>>

\* batch_extract_exif_dates(photo_paths): the paths with no cached date go to
\* one exiftool run; every path of the batch gets the date found or 0
RECURSIVE set_exif_dates(_, _, _, _)
set_exif_dates(self, fs, todo, found) ==
    IF todo = {} THEN self
    ELSE LET p == CHOOSE q \in todo : TRUE IN
         set_exif_dates(set_exif_date(self, fs, p, found[p]), fs, todo \ {p}, found)

Uncached(self, fs, photo_paths) ==
    {p \in photo_paths : get_exif_date(self, fs, p) = None}

BatchExtractExifDates(photo_paths, outcome) ==
    /\ pc = "run"
    /\ LET uncached == Uncached(inst, fstat, photo_paths)
           found == [p \in uncached |->
                       IF fstat[p].exists THEN ExifFound(outcome) ELSE ExifZero]
       IN
       /\ inst' = set_exif_dates(inst, fstat, uncached, found)
       /\ ret' = Call("batch_extract_exif_dates", None, None, uncached)
       /\ unsaved' = (unsaved \/ \E p \in uncached : fstat[p].exists)
       /\ NoteSets(uncached, "exif_date", LAMBDA p : found[p])
    /\ UNCHANGED <<fstat, disk, pc, lastSaved, regVars, scanVars, dupVars>>

CacheNext ==
    \/ \E f \in ApiPaths : ModifyFile(f)
    \/ \E f \in ApiPaths : DeleteFile(f)
    \/ \E f \in ApiPaths : CreateFile(f)
    \/ \E f \in ApiPaths : GetBlur(f)
    \/ \E f \in ApiPaths : GetHashes(f)
    \/ \E f \in ApiPaths : GetExifDate(f)
    \/ \E f \in ApiPaths, v \in BlurScores : SetBlur(f, v)
    \/ \E f \in ApiPaths, m \in Md5s, p \in Phashes : SetHashes(f, m, p)
    \/ \E f \in ApiPaths, t \in ExifDates : SetExifDate(f, t)
    \/ \E f \in ApiPaths, o \in ExifOutcomes : TriageGetExifDate(f, o)
    \/ \E o \in ExifOutcomes : BatchExtractExifDates(ApiPaths, o)

SpecCache == CacheInit /\ [][CacheNext]_vars

----------------------------------------------------------------------------
(* The cache and its store: save, crash and the next run *)

StoreSetBlur(f, v) == DoSetBlur(f, v) /\ UNCHANGED <<lastSet, setAt>>
StoreSetHashes(f, m, p) == DoSetHashes(f, m, p) /\ UNCHANGED <<lastSet, setAt>>
StoreSetExifDate(f, t) == DoSetExifDate(f, t) /\ UNCHANGED <<lastSet, setAt>>

\* save() with nothing modified: no write
SaveClean ==
    /\ pc = "run"
    /\ ~inst.dirty
    /\ ret' = Call("save", None, None, {})
    /\ UNCHANGED <<fstat, inst, disk, pc, lastSet, setAt, lastSaved, unsaved, regVars, scanVars, dupVars>>

\* save() of a modified cache, up to the open(): the file is truncated
SaveOpen ==
    /\ pc = "run"
    /\ inst.dirty
    /\ disk' = save_open(disk)
    /\ pc' = "saving"
    /\ ret' = Call("save_open", None, None, {})
    /\ UNCHANGED <<fstat, inst, lastSet, setAt, lastSaved, unsaved, regVars, scanVars, dupVars>>

\* save() of a modified cache, from json.dump to the return
SaveDump ==
    /\ pc = "saving"
    /\ disk' = [state |-> "ok", content |-> inst.cache]
    /\ inst' = save_dump(inst)
    /\ pc' = "run"
    /\ ret' = Call("save", None, None, {})
    /\ lastSaved' = inst.cache
    /\ unsaved' = FALSE
    /\ UNCHANGED <<fstat, lastSet, setAt, regVars, scanVars, dupVars>>

\* the process dies: its memory is gone, the cache file stays as it is
Crash ==
    /\ pc \in {"run", "saving"}
    /\ pc' = "crashed"
    /\ inst' = [cache |-> EmptyStore, dirty |-> FALSE]
    /\ ret' = Call("env", None, None, {})
    /\ unsaved' = FALSE
    /\ UNCHANGED <<fstat, disk, lastSet, setAt, lastSaved, regVars, scanVars, dupVars>>

\* the next run constructs the instance again
Restart ==
    /\ pc = "crashed"
    /\ pc' = "run"
    /\ inst' = NewInstance(disk)
    /\ ret' = Call("init", None, None, {})
    /\ UNCHANGED <<fstat, disk, lastSet, setAt, lastSaved, unsaved, regVars, scanVars, dupVars>>

StoreNext ==
    \/ \E f \in ApiPaths : ModifyFile(f)
    \/ \E f \in ApiPaths : DeleteFile(f)
    \/ \E f \in ApiPaths : CreateFile(f)
    \/ \E f \in ApiPaths, v \in BlurScores : StoreSetBlur(f, v)
    \/ \E f \in ApiPaths, m \in Md5s, p \in Phashes : StoreSetHashes(f, m, p)
    \/ \E f \in ApiPaths, t \in ExifDates : StoreSetExifDate(f, t)
    \/ SaveClean
    \/ SaveOpen
    \/ SaveDump
    \/ Crash
    \/ Restart

SpecStore == CacheInit /\ [][StoreNext]_vars

SpecRegistry == CacheInit /\ [][RegistryNext]_vars

----------------------------------------------------------------------------
(* scan_for_duplicates, run twice over the same unchanged files *)

\* the order in which directory.glob yields the files
ImageOrder == <<"a.jpg", "b.jpg", "c.jpg">>

Thresholds == {0, 1}

ScanInit ==
    /\ CacheStateInit
    /\ DupIdle
    /\ RegistryInit
    /\ ScanLocalsInit
    /\ content \in [Files -> Kinds]
    /\ threshold \in Thresholds

scanFrame == <<pc, ret, lastSet, setAt, lastSaved, unsaved, regVars, content, threshold,
               dupVars>>

\* from the call to the submission of the hashing futures
ScanStart ==
    /\ spc = "idle"
    /\ LET image_files == SelectSeq(ImageOrder, LAMBDA f : fstat[f].exists)
           is_cached(f) == LET cached == get_hashes(inst, fstat, f)
                           IN cached # NoHashes /\ Truthy(cached.md5) /\ Truthy(cached.phash)
           cached_files == SelectSeq(image_files, is_cached)
           cached_hashes == [i \in 1..Len(cached_files) |->
                               [path |-> cached_files[i],
                                md5 |-> get_hashes(inst, fstat, cached_files[i]).md5,
                                phash |-> get_hashes(inst, fstat, cached_files[i]).phash]]
       IN
       /\ results' = [NoResults EXCEPT !.total = Len(image_files),
                                       !.cached = Len(cached_files)]
       /\ file_hashes' = cached_hashes
       /\ pending' = SeqToSet(image_files) \ SeqToSet(cached_files)
    /\ spc' = "hashing"
    /\ unique_by_md5' = <<>>
    /\ chunks' = {}
    /\ all_similar_pairs' = <<>>
    /\ UNCHANGED <<fstat, inst, disk, run, prev, scanFrame>>

\* as_completed yields the future of file_path
HashCompleted(file_path) ==
    /\ spc = "hashing"
    /\ file_path \in pending
    /\ pending' = pending \ {file_path}
    /\ LET res == compute_file_hashes(file_path, content[file_path]) IN
       IF hash_failed(res)
       THEN /\ results' = [results EXCEPT !.errors = Append(@, res.path)]
            /\ UNCHANGED <<inst, file_hashes>>
       ELSE /\ inst' = set_hashes(inst, fstat, res.path, res.md5, res.phash)
            /\ results' = [results EXCEPT !.computed = @ + 1]
            /\ file_hashes' = Append(file_hashes,
                                     [path |-> res.path, md5 |-> res.md5, phash |-> res.phash])
    /\ UNCHANGED <<fstat, disk, run, spc, unique_by_md5, chunks, all_similar_pairs,
                   prev, scanFrame>>

\* all hashes are in: cache.save(), the grouping by MD5 and the submission of
\* the comparison futures
ScanGroup ==
    /\ spc = "hashing"
    /\ pending = {}
    /\ IF inst.dirty
       THEN /\ disk' = [state |-> "ok", content |-> inst.cache]
            /\ inst' = save_dump(inst)
       ELSE UNCHANGED <<disk, inst>>
    /\ LET md5_groups == md5_groups_of(<<>>, file_hashes)
           reps == unique_by_md5_of(md5_groups)
       IN
       /\ results' = [results EXCEPT !.exact_duplicates = exact_duplicates_of(md5_groups)]
       /\ unique_by_md5' = reps
       /\ chunks' = chunks_of(Len(reps))
    /\ all_similar_pairs' = <<>>
    /\ spc' = "comparing"
    /\ UNCHANGED <<fstat, run, file_hashes, pending, prev, scanFrame>>

PhashesOf(reps) == [i \in 1..Len(reps) |-> reps[i].phash]

\* as_completed yields the future of chunk c
ChunkCompleted(c) ==
    /\ spc = "comparing"
    /\ c \in chunks
    /\ chunks' = chunks \ {c}
    /\ all_similar_pairs' = all_similar_pairs
           \o compare_phash_chunk(c.start, c.end, PhashesOf(unique_by_md5), threshold)
    /\ UNCHANGED <<fstat, inst, disk, run, spc, results, file_hashes, pending,
                   unique_by_md5, prev, scanFrame>>

\* all pairs are in: the unions, the groups, the return
ScanFinish ==
    /\ spc = "comparing"
    /\ chunks = {}
    /\ LET n == Len(unique_by_md5)
           parent == apply_unions([i \in 0..(n - 1) |-> i], all_similar_pairs)
           groups == collect_groups(parent, <<>>, 0, unique_by_md5)
       IN results' = [results EXCEPT !.similar_groups = similar_groups_of(groups),
                                     !.unique = unique_of(groups)]
    /\ spc' = "done"
    /\ UNCHANGED <<fstat, inst, disk, run, file_hashes, pending, unique_by_md5, chunks,
                   all_similar_pairs, prev, scanFrame>>

\* The second scan: in the same process, in a new process that loads the
\* cache file, or in a new process after the cache file was removed.
SecondScan(how) ==
    /\ spc = "done"
    /\ run = 1
    /\ run' = 2
    /\ prev' = Membership(results)
    /\ spc' = "idle"
    /\ disk' = IF how = "cache_removed"
               THEN [state |-> "missing", content |-> EmptyStore] ELSE disk
    /\ inst' = IF how = "same_process" THEN inst ELSE NewInstance(disk')
    /\ UNCHANGED <<fstat, results, file_hashes, pending, unique_by_md5, chunks,
                   all_similar_pairs, scanFrame>>

ScanNext ==
    \/ ScanStart
    \/ \E f \in Files : HashCompleted(f)
    \/ ScanGroup
    \/ \E c \in chunks : ChunkCompleted(c)
    \/ ScanFinish
    \/ \E how \in {"same_process", "new_process", "cache_removed"} : SecondScan(how)

SpecScan == ScanInit /\ [][ScanNext]_vars

----------------------------------------------------------------------------
(* The pairwise comparison of scan_for_duplicates on a list of representatives *)

MaxReps == 4

RepNames == <<"r0.jpg", "r1.jpg", "r2.jpg", "r3.jpg", "r4.jpg", "r5.jpg">>

RepPhashes == {"0", "1", "e"}

\* unique_by_md5 for n representatives
RepLists(n) ==
    {[i \in 1..n |-> [path |-> RepNames[i], phash |-> ph[i]]] : ph \in [1..n -> RepPhashes]}

ChunksInit ==
    /\ CacheStateInit
    /\ DupIdle
    /\ RegistryInit
    /\ content = [f \in Files |-> "x0"]
    /\ threshold \in Thresholds
    /\ run = 1
    /\ spc = "idle"
    /\ results = NoResults
    /\ file_hashes = <<>>
    /\ pending = {}
    /\ unique_by_md5 \in UNION {RepLists(n) : n \in 0..MaxReps}
    /\ chunks = {}
    /\ all_similar_pairs = <<>>
    /\ prev = NoMembership

\* lines 716-752: n, phashes, the chunks and their submission
SubmitChunks ==
    /\ spc = "idle"
    /\ chunks' = chunks_of(Len(unique_by_md5))
    /\ all_similar_pairs' = <<>>
    /\ spc' = "comparing"
    /\ UNCHANGED <<fstat, inst, disk, run, results, file_hashes, pending, unique_by_md5,
                   prev, scanFrame>>

ChunksNext ==
    \/ SubmitChunks
    \/ \E c \in chunks : ChunkCompleted(c)
    \/ ScanFinish

SpecChunks == ChunksInit /\ [][ChunksNext]_vars

----------------------------------------------------------------------------
(* hamming_distance, compare_quality and find_duplicate: initial states and actions *)

\* the cache, the registry and the scan are not in use
OtherIdle ==
    /\ RegistryInit
    /\ ScanLocalsInit
    /\ content = [f \in Files |-> "x0"]
    /\ threshold = 0
    /\ CacheStateInit
    /\ BlurIdle
    /\ ProcIdle

HexDigits == {"0", "1", "2", "3", "4", "5", "6", "7",
              "8", "9", "a", "b", "c", "d", "e", "f"}

\* a perceptual hash (hash_size 2: one hex digit) or None
HashArgs == HexDigits \cup {None}

HammingInit ==
    /\ OtherIdle
    /\ CompareIdle
    /\ FindIdle
    /\ hargs \in HashArgs \X HashArgs
    /\ hret = <<>>

\* hamming_distance(hash1, hash2), then hamming_distance(hash2, hash1)
HammingDistance ==
    /\ Len(hret) < 2
    /\ hret' = Append(hret, IF hret = <<>> THEN hamming_distance(hargs[1], hargs[2])
                                           ELSE hamming_distance(hargs[2], hargs[1]))
    /\ UNCHANGED <<hargs, cq_args, cq_ret, findVars, blurVars, procVars, cacheVars,
                   regVars, scanVars>>

SpecHamming == HammingInit /\ [][HammingDistance]_vars

CompareInit ==
    /\ OtherIdle
    /\ HammingIdle
    /\ FindIdle
    /\ cq_args \in [source : QualityInfo, existing : QualityInfo]
    /\ cq_ret = NoReturn

CompareQuality ==
    /\ ~cq_ret.returned
    /\ cq_ret' = compare_quality(cq_args.source, cq_args.existing)
    /\ UNCHANGED <<hargs, hret, cq_args, findVars, blurVars, procVars, cacheVars,
                   regVars, scanVars>>

SpecCompare == CompareInit /\ [][CompareQuality]_vars

\* what the source file can be
SourceKinds == {"gone", "empty", "nodur", "v500", "v900"}

\* file indexes build_file_index can have produced: [base_name, paths] in the
\* order of the dict
FileIndexes ==
    { <<>>,
      <<[base_name |-> BaseVid1, paths |-> <<"o1">>],
        [base_name |-> BaseCopy1, paths |-> <<"o2">>]>>,
      <<[base_name |-> BaseCopy1, paths |-> <<"o2">>],
        [base_name |-> BaseVid1, paths |-> <<"o1">>]>>,
      <<[base_name |-> BaseVid1, paths |-> <<"o1">>],
        [base_name |-> BaseHoliday, paths |-> <<"o2">>]>>,
      <<[base_name |-> BaseVid1, paths |-> <<"o2", "o1">>]>> }

KindOf(path) == IF path = SourcePath THEN source.kind ELSE organized[path]

\* the paths whose entry in .duration_cache.json matches the file's mtime and size
ValidCached == {p \in Organized \cup {SourcePath} : ffprobe_duration(KindOf(p)) # NoDuration}

FindInit ==
    /\ OtherIdle
    /\ HammingIdle
    /\ CompareIdle
    /\ organized \in [Organized -> FileKinds]
    /\ source \in [name : SourceNames, kind : SourceKinds]
    /\ file_index \in FileIndexes
    /\ duration_cache \in {{}, ValidCached}
    /\ size_tolerance \in SizeTolerances
    /\ prober = "answers"
    /\ FindLocalsInit

\* _get_duration: the duration, the cache afterwards, and whether ffprobe ran
get_duration(cache, path, kind) ==
    IF path \in cache /\ exists(kind)
    THEN [duration |-> ffprobe_duration(kind), cache |-> cache, ran |-> FALSE]
    ELSE LET duration == ffprobe_duration(kind) IN
         [duration |-> duration,
          cache |-> IF duration # NoDuration THEN cache \cup {path} ELSE cache,
          ran |-> TRUE]

findFrame == <<source, file_index, size_tolerance, prober, fnVars, blurVars, procVars,
               cacheVars, regVars, scanVars>>

\* lines 439-477: up to the candidate loop
FindCall ==
    /\ fpc = "call"
    /\ LET date_pattern == extract_date_pattern(source.name)
           candidates == lookup(file_index, date_pattern)
           is_video == is_video_name(source.name)
           gd == get_duration(duration_cache, SourcePath, source.kind)
       IN
       IF ~exists(source.kind) \/ date_pattern = NoPattern \/ candidates = <<>>
       THEN /\ fd_ret' = none_result(
                    IF ~exists(source.kind) THEN "Source file does not exist"
                    ELSE IF date_pattern = NoPattern THEN "No date pattern in filename"
                    ELSE "No files match date pattern")
            /\ fpc' = "done"
            /\ UNCHANGED <<duration_cache, cand, locals, examined, probed>>
       ELSE /\ locals' = [candidates |-> candidates,
                          source_size |-> st_size(source.kind),
                          is_video |-> is_video,
                          source_duration |-> IF is_video THEN gd.duration ELSE NoDuration]
            /\ duration_cache' = IF is_video THEN gd.cache ELSE duration_cache
            /\ probed' = probed \cup {<<SourcePath, "stat">>}
                            \cup (IF is_video /\ gd.ran THEN {<<SourcePath, "ffprobe">>} ELSE {})
            /\ fpc' = "loop"
            /\ cand' = 1
            /\ UNCHANGED <<fd_ret, examined>>
    /\ UNCHANGED <<organized, findFrame>>

\* lines 484-569: the loop body after the exists() test
CompareCandidate(candidate_path, kind) ==
    LET    by_duration == locals.is_video /\ locals.source_duration # NoDuration
           gd == get_duration(duration_cache, candidate_path, kind)
           analysed == /\ by_duration
                       /\ gd.duration # NoDuration
                       /\ ~duration_differs(locals.source_duration, gd.duration)
                       /\ Min(locals.source_size, st_size(kind)) > 0
                       /\ ~within_size_tolerance(locals.source_size, st_size(kind))
           outcome == IF by_duration
                      THEN video_candidate(locals.source_size, locals.source_duration,
                                           get_video_quality(source.kind),
                                           candidate_path, st_size(kind), gd.duration,
                                           get_video_quality(kind))
                      ELSE size_only_candidate(locals.source_size, candidate_path,
                                               st_size(kind))
    IN
    /\ duration_cache' = IF by_duration THEN gd.cache ELSE duration_cache
    /\ probed' = probed \cup {<<candidate_path, "stat">>}
         \cup (IF by_duration /\ gd.ran THEN {<<candidate_path, "ffprobe">>} ELSE {})
         \cup (IF analysed THEN {<<SourcePath, "ffprobe">>,
                                 <<candidate_path, "ffprobe">>} ELSE {})
    /\ IF outcome.returned
       THEN fd_ret' = outcome /\ fpc' = "done" /\ cand' = cand
       ELSE cand' = cand + 1 /\ fpc' = "loop" /\ UNCHANGED fd_ret

\* lines 480-569: one iteration of the candidate loop
ExamineCandidate ==
    /\ fpc = "loop"
    /\ cand <= Len(locals.candidates)
    /\ LET candidate_path == locals.candidates[cand]
           kind == organized[candidate_path]
       IN
       /\ examined' = Append(examined, candidate_path)
       /\ IF ~exists(kind)
          THEN /\ cand' = cand + 1
               /\ UNCHANGED <<duration_cache, fpc, fd_ret, probed>>
          ELSE CompareCandidate(candidate_path, kind)
    /\ UNCHANGED <<locals, organized, findFrame>>

\* lines 571-578: the loop ended without a return
FindNoMatch ==
    /\ fpc = "loop"
    /\ cand > Len(locals.candidates)
    /\ fd_ret' = low_result(locals.candidates)
    /\ fpc' = "done"
    /\ UNCHANGED <<duration_cache, cand, locals, examined, probed, organized, findFrame>>

FindNext == FindCall \/ ExamineCandidate \/ FindNoMatch

SpecFind == FindInit /\ [][FindNext]_vars

----------------------------------------------------------------------------
(* find_duplicate in its environment: organized files are deleted while the call
   runs, and the external ffprobe may never exit *)

FindEnvInit ==
    /\ OtherIdle
    /\ HammingIdle
    /\ CompareIdle
    /\ organized \in [Organized -> FileKinds]
    /\ source \in [name : SourceNames, kind : SourceKinds]
    /\ file_index \in FileIndexes
    /\ duration_cache \in {{}, ValidCached}
    /\ size_tolerance = DefaultSizeTolerance
    /\ prober \in {"answers", "silent"}
    /\ FindLocalsInit

\* another process removes an organized file
DeleteOrganized(p) ==
    /\ fpc \in {"call", "loop", "stat"}
    /\ organized[p] # "gone"
    /\ organized' = [organized EXCEPT ![p] = "gone"]
    /\ UNCHANGED <<duration_cache, fpc, cand, locals, fd_ret, examined, probed, findFrame>>

\* line 477 runs ffprobe: the call gets to _get_duration and the source has no
\* valid cache entry
CallProbes ==
    /\ fpc = "call"
    /\ exists(source.kind)
    /\ lookup(file_index, extract_date_pattern(source.name)) # <<>>
    /\ is_video_name(source.name)
    /\ get_duration(duration_cache, SourcePath, source.kind).ran

\* lines 488-524 run ffprobe for the candidate at hand: for its duration, or for
\* the quality of both files
CompareProbes ==
    /\ fpc = "stat"
    /\ LET candidate_path == locals.candidates[cand]
           kind == organized[candidate_path]
           gd == get_duration(duration_cache, candidate_path, kind)
       IN /\ exists(kind)
          /\ locals.is_video /\ locals.source_duration # NoDuration
          /\ \/ gd.ran
             \/ /\ gd.duration # NoDuration
                /\ ~duration_differs(locals.source_duration, gd.duration)
                /\ ~within_size_tolerance(locals.source_size, st_size(kind))

\* subprocess.run(...) without a timeout on a process that never exits
ProbeHangs ==
    /\ prober = "silent"
    /\ CallProbes \/ CompareProbes
    /\ fpc' = "hung"
    /\ UNCHANGED <<duration_cache, cand, locals, fd_ret, examined, probed, organized,
                   findFrame>>

EnvFindCall ==
    /\ ~(prober = "silent" /\ CallProbes)
    /\ FindCall

\* lines 480-482: the exists() test of one iteration
CandidateExists ==
    /\ fpc = "loop"
    /\ cand <= Len(locals.candidates)
    /\ examined' = Append(examined, locals.candidates[cand])
    /\ IF ~exists(organized[locals.candidates[cand]])
       THEN cand' = cand + 1 /\ UNCHANGED fpc
       ELSE fpc' = "stat" /\ UNCHANGED cand
    /\ UNCHANGED <<duration_cache, fd_ret, probed, locals, organized, findFrame>>

\* lines 484-569: candidate_path.stat() and the rest of the iteration
CandidateStat ==
    /\ fpc = "stat"
    /\ ~(prober = "silent" /\ CompareProbes)
    /\ IF ~exists(organized[locals.candidates[cand]])
       THEN /\ fd_ret' = Raise("FileNotFoundError")
            /\ fpc' = "done"
            /\ UNCHANGED <<duration_cache, cand, probed>>
       ELSE CompareCandidate(locals.candidates[cand], organized[locals.candidates[cand]])
    /\ UNCHANGED <<examined, locals, organized, findFrame>>

FindEnvNext ==
    \/ EnvFindCall
    \/ CandidateExists
    \/ CandidateStat
    \/ FindNoMatch
    \/ ProbeHangs
    \/ \E p \in Organized : DeleteOrganized(p)

SpecFindEnv == FindEnvInit /\ [][FindEnvNext]_vars

----------------------------------------------------------------------------
(* process_file: a loose file of the input directory is skipped, replaces an
   organized file or is moved into the organized folders *)

\* what unlink and shutil.move do: both succeed, or one of them raises
FileOps == {"ok", "unlink_fails", "move_fails"}

ProcInit ==
    /\ RegistryInit
    /\ ScanLocalsInit
    /\ content = [f \in Files |-> "x0"]
    /\ threshold = 0
    /\ CacheStateInit
    /\ BlurIdle
    /\ HammingIdle
    /\ CompareIdle
    /\ organized \in [Organized -> FileKinds]
    /\ source \in [name : SourceNames, kind : SourceKinds \ {"gone"}]
    /\ file_index \in FileIndexes
    /\ duration_cache = {}
    /\ size_tolerance = DefaultSizeTolerance
    /\ prober = "answers"
    /\ fpc = "wait"
    /\ cand = 1
    /\ locals = NoLocals
    /\ fd_ret = NoReturn
    /\ examined = <<>>
    /\ probed = {}
    /\ dry_run \in BOOLEAN
    /\ creation_date \in {None, "2024-01-01"}
    /\ dest_taken \in Organized \cup {None}
    /\ placed = SourcePath
    /\ pf_ret = NoReturn

procFrame == <<source, file_index, size_tolerance, prober, fnVars, blurVars, cacheVars,
               regVars, scanVars, dry_run, creation_date, dest_taken, duration_cache,
               cand, locals, fd_ret, examined, probed>>

\* lines 433-463: get_creation_date, then the call of detector.find_duplicate
ProcessFileCall ==
    /\ fpc = "wait"
    /\ ~pf_ret.returned
    /\ IF creation_date = None
       THEN /\ pf_ret' = Outcome("skipped", "no date")
            /\ UNCHANGED fpc
       ELSE /\ fpc' = "call"
            /\ UNCHANGED pf_ret
    /\ UNCHANGED <<organized, placed, procFrame>>

\* lines 465-527: find_duplicate has returned dup_result
ProcessFileDecide(ops) ==
    /\ fpc = "done"
    /\ ~pf_ret.returned
    /\ fd_ret.raised = None
    /\ LET branch == process_file_branch(fd_ret, dry_run)
           existing_path == fd_ret.existing_path
           collision == dest_taken # None /\ exists(organized[dest_taken])
       IN CASE branch = "skip_exact" ->
                 /\ ops = "ok"
                 /\ pf_ret' = Outcome("skipped", "exact duplicate")
                 /\ UNCHANGED <<organized, placed>>
            [] branch = "skip_existing" ->
                 /\ ops = "ok"
                 /\ pf_ret' = Outcome("skipped", "existing preferred")
                 /\ UNCHANGED <<organized, placed>>
            [] branch = "would_replace" ->
                 /\ ops = "ok"
                 /\ pf_ret' = Outcome("replaced", "source is better quality/size")
                 /\ UNCHANGED <<organized, placed>>
            [] branch = "replace" /\ ops = "ok" ->
                 /\ organized' = [organized EXCEPT ![existing_path] = source.kind]
                 /\ placed' = existing_path
                 /\ pf_ret' = Outcome("replaced", "source is better quality/size")
            [] branch = "replace" /\ ops = "unlink_fails" ->
                 /\ pf_ret' = Outcome("failed", "unlink")
                 /\ UNCHANGED <<organized, placed>>
            [] branch = "replace" /\ ops = "move_fails" ->
                 /\ organized' = [organized EXCEPT ![existing_path] = "gone"]
                 /\ pf_ret' = Outcome("failed", "move")
                 /\ UNCHANGED placed
            [] branch = "move" /\ dry_run ->
                 /\ ops = "ok"
                 /\ pf_ret' = Outcome("moved", "new file")
                 /\ UNCHANGED <<organized, placed>>
            [] branch = "move" /\ ~dry_run /\ ops = "ok" ->
                 /\ pf_ret' = Outcome("moved", "new file")
                 /\ IF collision
                    THEN placed' = "dest_1" /\ UNCHANGED organized
                    ELSE IF dest_taken # None
                    THEN /\ placed' = dest_taken
                         /\ organized' = [organized EXCEPT ![dest_taken] = source.kind]
                    ELSE placed' = "dest" /\ UNCHANGED organized
            [] branch = "move" /\ ~dry_run /\ ops = "move_fails" ->
                 /\ pf_ret' = Outcome("failed", "move failed")
                 /\ UNCHANGED <<organized, placed>>
            [] OTHER -> FALSE
    /\ UNCHANGED <<fpc, procFrame>>

\* find_duplicate raised: nothing in process_file catches it
ProcessFileRaises ==
    /\ fpc = "done"
    /\ ~pf_ret.returned
    /\ fd_ret.raised # None
    /\ pf_ret' = Outcome("raised", fd_ret.raised)
    /\ UNCHANGED <<organized, placed, fpc, procFrame>>

ProcNext ==
    \/ ProcessFileCall
    \/ FindNext
    \/ \E ops \in FileOps : ProcessFileDecide(ops)
    \/ ProcessFileRaises

SpecProcess == ProcInit /\ [][ProcNext]_vars

----------------------------------------------------------------------------
(* Blur classification: is_photo_blurry, scan_for_blur and blurry_with_context
   over a directory of two images, some of them with a cached blur score *)

\* the files directory.glob yields that pass is_file()
image_files == {f \in BlurPaths : fstat[f].exists}

\* a cache file in which the images of `cached` have their blur score
BlurStore(cached) == [f \in cached |-> [NewEntry(fstat[f]) EXCEPT !.blur = photo[f].blur]]

BlurInit ==
    /\ RegistryInit
    /\ ScanLocalsInit
    /\ content = [f \in Files |-> "x0"]
    /\ threshold = 0
    /\ HammingIdle
    /\ CompareIdle
    /\ FindIdle
    /\ ProcIdle
    /\ photo \in [BlurPaths -> Images]
    /\ fstat = [f \in Files |-> [exists |-> f \in BlurPaths, mtime |-> 1, size |-> 1]]
    /\ \E cached \in SUBSET {f \in BlurPaths : photo[f].blur # None} :
         disk = [state |-> "ok", content |-> BlurStore(cached)]
    /\ inst = NewInstance(disk)
    /\ pc = "run"
    /\ ret = Call("init", None, None, {})
    /\ lastSet = [f \in Files |-> NoSet]
    /\ setAt = NoneAt
    /\ lastSaved = disk.content
    /\ unsaved = FALSE
    /\ bcall = [fn |-> None, use_texture_filter |-> FALSE, phase |-> "idle"]
    /\ futures = {}
    /\ completed = {}
    /\ blur_scores = NoFunction
    /\ edge_densities = NoFunction
    /\ bret = None
    /\ cache_log = {}

blurFrame == <<fstat, photo, pc, ret, lastSet, setAt, lastSaved, unsaved, regVars,
               scanVars, fnVars, findVars, procVars>>

\* is_photo_blurry(image_path, use_texture_filter=...)
IsPhotoBlurry(image_path, use_texture_filter) ==
    /\ bcall.phase = "idle"
    /\ image_path \in image_files
    /\ LET r == is_photo_blurry(inst, fstat, photo[image_path], image_path,
                                BLUR_THRESHOLD_BLURRY, use_texture_filter)
       IN /\ bret' = [path |-> r.path, is_blurry |-> r.is_blurry,
                      blur_score |-> r.blur_score, edge_density |-> r.edge_density,
                      low_texture |-> r.low_texture]
          /\ inst' = r.self
          /\ cache_log' = cache_log \cup Accesses("main", r.ops, image_path)
    /\ bcall' = [fn |-> "is_photo_blurry", use_texture_filter |-> use_texture_filter,
                 phase |-> "done"]
    /\ UNCHANGED <<disk, futures, completed, blur_scores, edge_densities, blurFrame>>

\* scan_for_blur, lines 1081-1170: the first pass over the cache, then the
\* return when nothing is left or the submission of the workers
ScanForBlur ==
    /\ bcall.phase = "idle"
    /\ LET cached == {f \in image_files : get_blur(inst, fstat, f) # None}
           files_to_process == image_files \ cached
           blurry == {f \in cached : below(get_blur(inst, fstat, f), BLUR_THRESHOLD_BLURRY)}
       IN /\ bret' = [NoBlurResults EXCEPT !.total = Cardinality(cached),
                                           !.cached = Cardinality(cached),
                                           !.blurry = blurry,
                                           !.sharp = cached \ blurry]
          /\ futures' = files_to_process
          /\ bcall' = [fn |-> "scan_for_blur", use_texture_filter |-> FALSE,
                       phase |-> IF files_to_process = {} THEN "done" ELSE "blur_pool"]
    /\ cache_log' = cache_log \cup {<<"main", "get_blur", f>> : f \in image_files}
    /\ UNCHANGED <<inst, disk, completed, blur_scores, edge_densities, blurFrame>>

\* a pool process runs _process_single_image((file_path, threshold))
ProcessSingleImage(file_path) ==
    /\ bcall.fn = "scan_for_blur"
    /\ bcall.phase = "blur_pool"
    /\ file_path \in futures
    /\ futures' = futures \ {file_path}
    /\ LET r == process_single_image(inst, fstat, photo[file_path], file_path,
                                     BLUR_THRESHOLD_BLURRY)
       IN /\ completed' = completed \cup {Returned(r)}
          /\ cache_log' = cache_log \cup Accesses("worker", r.ops, file_path)
    /\ UNCHANGED <<inst, disk, bcall, blur_scores, edge_densities, bret, blurFrame>>

\* scan_for_blur, lines 1172-1210: as_completed yields a result; after the last
\* one, save_all_caches() and the return
ScanForBlurCollect(result) ==
    /\ bcall.fn = "scan_for_blur"
    /\ bcall.phase = "blur_pool"
    /\ result \in completed
    /\ completed' = completed \ {result}
    /\ LET last == futures = {} /\ completed = {result}
           after == IF result.status = "error" THEN inst
                    ELSE set_blur(inst, fstat, result.path, result.score)
       IN /\ inst' = IF last THEN saved_inst(after) ELSE after
          /\ disk' = IF last THEN saved_disk(after, disk) ELSE disk
          /\ bcall' = [bcall EXCEPT !.phase = IF last THEN "done" ELSE @]
    /\ bret' = [bret EXCEPT
                  !.total = @ + 1,
                  !.errors = IF result.status = "error" THEN @ \cup {result.path} ELSE @,
                  !.blurry = IF result.status = "blurry" THEN @ \cup {result.path} ELSE @,
                  !.sharp = IF result.status = "sharp" THEN @ \cup {result.path} ELSE @]
    /\ cache_log' = cache_log \cup
                      (IF result.status = "error" THEN {}
                       ELSE {<<"main", "set_blur", result.path>>})
    /\ UNCHANGED <<futures, blur_scores, edge_densities, blurFrame>>

\* blurry_with_context, phases 3 and 4 once blur_scores is complete: the
\* submission of the texture workers, or the results list and the return
TexturePhase(scores, densities, unreadable) ==
    LET need == IF bcall.use_texture_filter
                THEN needing_texture(scores, densities, BLUR_THRESHOLD_BLURRY) ELSE {}
    IN /\ futures' = need
       /\ bcall' = [bcall EXCEPT !.phase = IF need = {} THEN "done" ELSE "texture_pool"]
       /\ bret' = [results |-> IF need = {}
                               THEN blurry_results(scores, densities, BLUR_THRESHOLD_BLURRY,
                                                   bcall.use_texture_filter)
                               ELSE {},
                   unreadable |-> unreadable]

\* blurry_with_context, lines 604-677: phase 1 and the submission of the workers
BlurryWithContext(use_texture_filter) ==
    /\ bcall.phase = "idle"
    /\ LET cached == {f \in image_files : get_blur(inst, fstat, f) # None}
           files_to_process == image_files \ cached
           scores == [f \in cached |-> get_blur(inst, fstat, f)]
           need == IF use_texture_filter
                   THEN needing_texture(scores, NoFunction, BLUR_THRESHOLD_BLURRY) ELSE {}
       IN /\ blur_scores' = scores
          /\ futures' = IF files_to_process # {} THEN files_to_process ELSE need
          /\ bcall' = [fn |-> "blurry_with_context",
                       use_texture_filter |-> use_texture_filter,
                       phase |-> IF files_to_process # {} THEN "blur_pool"
                                 ELSE IF need # {} THEN "texture_pool" ELSE "done"]
          /\ bret' = [results |-> IF files_to_process = {} /\ need = {}
                                  THEN blurry_results(scores, NoFunction,
                                                      BLUR_THRESHOLD_BLURRY,
                                                      use_texture_filter)
                                  ELSE {},
                      unreadable |-> {}]
    /\ cache_log' = cache_log \cup {<<"main", "get_blur", f>> : f \in image_files}
    /\ UNCHANGED <<inst, disk, completed, edge_densities, blurFrame>>

\* a pool process runs _compute_blur_with_texture(fp)
ComputeBlurWithTexture(file_path) ==
    /\ bcall.fn = "blurry_with_context"
    /\ bcall.phase = "blur_pool"
    /\ file_path \in futures
    /\ futures' = futures \ {file_path}
    /\ LET r == compute_blur_with_texture(inst, fstat, photo[file_path], file_path)
       IN /\ completed' = completed \cup {Returned(r)}
          /\ cache_log' = cache_log \cup Accesses("worker", r.ops, file_path)
    /\ UNCHANGED <<inst, disk, bcall, blur_scores, edge_densities, bret, blurFrame>>

\* blurry_with_context, lines 679-699: as_completed yields a result of phase 2;
\* after the last one, save_all_caches() and phases 3 and 4
CollectBlur(result) ==
    /\ bcall.fn = "blurry_with_context"
    /\ bcall.phase = "blur_pool"
    /\ result \in completed
    /\ completed' = completed \ {result}
    /\ LET last == futures = {} /\ completed = {result}
           readable == result.score # None
           scores == IF readable THEN (result.path :> result.score) @@ blur_scores
                     ELSE blur_scores
           densities == IF readable
                        THEN (result.path :> result.edge_density) @@ edge_densities
                        ELSE edge_densities
           unreadable == IF readable THEN bret.unreadable
                         ELSE bret.unreadable \cup {result.path}
           after == IF readable THEN set_blur(inst, fstat, result.path, result.score)
                    ELSE inst
       IN /\ blur_scores' = scores
          /\ edge_densities' = densities
          /\ inst' = IF last THEN saved_inst(after) ELSE after
          /\ disk' = IF last THEN saved_disk(after, disk) ELSE disk
          /\ cache_log' = cache_log \cup
                            (IF readable THEN {<<"main", "set_blur", result.path>>} ELSE {})
          /\ IF last THEN TexturePhase(scores, densities, unreadable)
             ELSE /\ bret' = [bret EXCEPT !.unreadable = unreadable]
                  /\ UNCHANGED <<futures, bcall>>
    /\ UNCHANGED blurFrame

\* a pool process runs _compute_texture_only(p)
ComputeTextureOnly(file_path) ==
    /\ bcall.fn = "blurry_with_context"
    /\ bcall.phase = "texture_pool"
    /\ file_path \in futures
    /\ futures' = futures \ {file_path}
    /\ LET r == compute_texture_only(photo[file_path], file_path)
       IN /\ completed' = completed \cup {Returned(r)}
          /\ cache_log' = cache_log \cup Accesses("worker", r.ops, file_path)
    /\ UNCHANGED <<inst, disk, bcall, blur_scores, edge_densities, bret, blurFrame>>

\* blurry_with_context, lines 716-768: as_completed yields a result of phase 3;
\* after the last one, the results list and the return
CollectTexture(result) ==
    /\ bcall.fn = "blurry_with_context"
    /\ bcall.phase = "texture_pool"
    /\ result \in completed
    /\ completed' = completed \ {result}
    /\ LET last == futures = {} /\ completed = {result}
           densities == IF result.edge_density # NoDensity
                        THEN (result.path :> result.edge_density) @@ edge_densities
                        ELSE edge_densities
       IN /\ edge_densities' = densities
          /\ bcall' = [bcall EXCEPT !.phase = IF last THEN "done" ELSE @]
          /\ bret' = IF last
                     THEN [bret EXCEPT !.results =
                             blurry_results(blur_scores, densities, BLUR_THRESHOLD_BLURRY,
                                            bcall.use_texture_filter)]
                     ELSE bret
    /\ UNCHANGED <<inst, disk, futures, blur_scores, cache_log, blurFrame>>

BlurNext ==
    \/ \E f \in BlurPaths, use_texture_filter \in BOOLEAN :
         IsPhotoBlurry(f, use_texture_filter)
    \/ ScanForBlur
    \/ \E f \in BlurPaths : ProcessSingleImage(f)
    \/ \E result \in completed : ScanForBlurCollect(result)
    \/ \E use_texture_filter \in BOOLEAN : BlurryWithContext(use_texture_filter)
    \/ \E f \in BlurPaths : ComputeBlurWithTexture(f)
    \/ \E result \in completed : CollectBlur(result)
    \/ \E f \in BlurPaths : ComputeTextureOnly(f)
    \/ \E result \in completed : CollectTexture(result)

SpecBlur == BlurInit /\ [][BlurNext]_vars

\* the images the finished call reports as blurry
classified_blurry ==
    CASE bcall.fn = "is_photo_blurry" -> IF bret.is_blurry THEN {bret.path} ELSE {}
      [] bcall.fn = "scan_for_blur" -> bret.blurry
      [] bcall.fn = "blurry_with_context" -> bret.results
      [] OTHER -> {}

----------------------------------------------------------------------------
(* Claims about the cache API (SpecCache) *)

GetOps == {"get_blur", "get_hashes", "get_exif_date"}

FieldOf(op) ==
    CASE op \in {"get_blur", "set_blur"} -> "blur"
      [] op \in {"get_hashes", "set_hashes"} -> "hashes"
      [] op \in {"get_exif_date", "set_exif_date"} -> "exif_date"

\* C1: once a file's (mtime, size) has changed, no get on that path returns a
\* value that was stored before the change: a get that returns a value returns
\* one that was stored at the file's current (mtime, size).
C1_NoValueFromBeforeTheChange ==
    ret.op \in GetOps =>
        (ret.value # NoneOf(FieldOf(ret.op)) =>
            setAt[ret.path][FieldOf(ret.op)] = StatPair(fstat[ret.path]))

\* C2: when the most recent set on a path was set(F, field, V), get(F, field)
\* is V while F still has the (mtime, size) it had at the set, and None once
\* the pair has changed or F cannot be stat'ed.
C2_SetThenGet ==
    \A f \in Files :
        lastSet[f].field \in Fields =>
            Get(lastSet[f].field, inst, fstat, f) =
                IF fstat[f].exists /\ StatPair(fstat[f]) = lastSet[f].stat
                THEN lastSet[f].value
                ELSE NoneOf(lastSet[f].field)

\* a get_blur that found the file touched since set_blur and returned None
C2_Witness ==
    /\ ret.op = "get_blur"
    /\ lastSet[ret.path].field = "blur"
    /\ fstat[ret.path].exists
    /\ StatPair(fstat[ret.path]) # lastSet[ret.path].stat
    /\ ret.value = None

\* the entry of f is valid and holds the capture timestamp 0
CachedZero(f) ==
    /\ f \in DOMAIN inst.cache
    /\ is_valid(fstat[f], inst.cache[f])
    /\ inst.cache[f].exif_date = ExifZero

TriageOps == {"triage_get_exif_date", "batch_extract_exif_dates"}

\* C3: after set_exif_date(F, 0) on an untouched file get_exif_date(F) is 0,
\* not None, and neither photo_triage.get_exif_date nor
\* batch_extract_exif_dates runs the external extractor on a file whose valid
\* entry holds 0.
C3_ZeroIsCached ==
    /\ [](\A f \in Files :
            (/\ lastSet[f].field = "exif_date"
             /\ lastSet[f].value = ExifZero
             /\ fstat[f].exists
             /\ StatPair(fstat[f]) = lastSet[f].stat)
            => get_exif_date(inst, fstat, f) = ExifZero)
    /\ [][\A f \in Files :
            (CachedZero(f) /\ ret'.op \in TriageOps) => f \notin ret'.ran]_vars

\* photo_triage.get_exif_date answered "no date" from a cached 0, running nothing
C3_Witness ==
    /\ ret.op = "triage_get_exif_date"
    /\ CachedZero(ret.path)
    /\ ret.ran = {}
    /\ ret.value = None

\* C4: a set of one field on an existing file leaves an entry that holds the
\* file's current (mtime, size), creating it when absent, and every other field
\* of an entry that was valid reads as before.
C4_SetKeepsOtherFields ==
    [][\A f \in Files :
         (ret'.op \in SetOps /\ ret'.path = f /\ fstat[f].exists) =>
            /\ f \in DOMAIN inst'.cache
            /\ inst'.cache[f].mtime = fstat[f].mtime
            /\ inst'.cache[f].size = fstat[f].size
            /\ \A fld \in Fields \ {FieldOf(ret'.op)} :
                 (f \in DOMAIN inst.cache /\ is_valid(fstat[f], inst.cache[f])) =>
                    Get(fld, inst', fstat', f) = Get(fld, inst, fstat, f)]_vars

\* a set_blur on an entry whose hashes were cached and still are
C4_Witness ==
    /\ ret.op = "set_blur"
    /\ get_blur(inst, fstat, ret.path) # None
    /\ get_hashes(inst, fstat, ret.path) # NoHashes
    /\ get_exif_date(inst, fstat, ret.path) # None

----------------------------------------------------------------------------
(* Claims about the store (SpecStore) *)

Contains(store, saved) ==
    \A k \in DOMAIN saved : k \in DOMAIN store /\ store[k] = saved[k]

\* C5: whenever the process has crashed, every entry written by the last
\* completed save is in the on-disk store, and the next run loads it.
C5_CrashKeepsSavedEntries ==
    /\ pc = "crashed" => Contains(load(disk), lastSaved)
    /\ ret.op = "init" => Contains(inst.cache, lastSaved)

\* C7: the cache is dirty exactly when a set has succeeded since the load or
\* the last completed save; a successful set makes it dirty; the cache file is
\* written only by a save of a dirty cache; a save right after a save writes
\* nothing.
C7_SaveIfModified ==
    /\ [](inst.dirty <=> unsaved)
    /\ [][(ret'.op \in SetOps /\ fstat[ret'.path].exists) => inst'.dirty]_vars
    /\ [][disk' # disk => (unsaved /\ ret'.op \in {"save_open", "save"})]_vars
    /\ [][(ret.op = "save" /\ ret'.op \in {"save_open", "save"}) => disk' = disk]_vars

\* a save that wrote the store, leaving the cache clean
C7_Witness ==
    /\ ret.op = "save"
    /\ disk.state = "ok"
    /\ DOMAIN disk.content # {}
    /\ ~inst.dirty

----------------------------------------------------------------------------
(* Claims about the registry (SpecRegistry) *)

\* C6: any two get_analysis_cache calls that designate the same directory got
\* the same instance, and no two instances are backed by the same cache file.
C6_OneInstancePerDirectory ==
    /\ \A k1, k2 \in DOMAIN registry :
         DirOf(k1) = DirOf(k2) => registry[k1] = registry[k2]
    /\ \A i, j \in 1..Len(instances) :
         CacheFileOf(instances[i].cache_path) = CacheFileOf(instances[j].cache_path)
            => i = j

----------------------------------------------------------------------------
(* Claims about scan_for_duplicates (SpecScan) *)

\* C8: the second scan of the same unchanged files returns the group
\* membership the first scan returned.
C8_SecondScanSameMembership ==
    (run = 2 /\ spc = "done") => Membership(results) = prev

Representatives == SeqToSet(Paths(unique_by_md5))

PhashOfRep(p) ==
    unique_by_md5[CHOOSE i \in 1..Len(unique_by_md5) : unique_by_md5[i].path = p].phash

Near(p, q) == hamming_distance(PhashOfRep(p), PhashOfRep(q)) <= threshold

\* the representatives linked to those of S by a chain of near representatives
RECURSIVE Linked(_)
Linked(S) ==
    LET T == S \cup {q \in Representatives : \E p \in S : Near(p, q)}
    IN IF T = S THEN S ELSE Linked(T)

SimilarSets == {SeqToSet(results.similar_groups[i]) : i \in 1..Len(results.similar_groups)}

NoRepeat(q) == \A i, j \in 1..Len(q) : q[i] = q[j] => i = j

\* C9: when the scan returns, the similar groups and unique partition the
\* representatives, two representatives share a similar group exactly when a
\* chain of representatives within the threshold links them, and a
\* representative linked to no other is in unique; this for every order in
\* which the chunk results arrived.
C9_SimilarGroupsAreLinkClasses ==
    spc = "done" =>
        /\ NoRepeat(results.unique)
        /\ \A i \in 1..Len(results.similar_groups) : NoRepeat(results.similar_groups[i])
        /\ \A i, j \in 1..Len(results.similar_groups) :
             i # j => SeqToSet(results.similar_groups[i])
                        \cap SeqToSet(results.similar_groups[j]) = {}
        /\ \A g \in SimilarSets : g \cap SeqToSet(results.unique) = {}
        /\ UNION SimilarSets \cup SeqToSet(results.unique) = Representatives
        /\ \A p \in Representatives :
             /\ p \in SeqToSet(results.unique) <=> Linked({p}) = {p}
             /\ \A q \in Representatives \ {p} :
                  (\E g \in SimilarSets : p \in g /\ q \in g) <=> q \in Linked({p})

\* three representatives in one similar group, two of them beyond the
\* threshold of each other, the result of the later chunk having arrived first
C9_Witness ==
    /\ spc = "done"
    /\ Len(all_similar_pairs) = 2
    /\ all_similar_pairs[1][1] > all_similar_pairs[2][1]
    /\ \E g \in SimilarSets : \E p, q \in g : Cardinality(g) = 3 /\ ~Near(p, q)

FailKinds == {"bad", "unreadable"}

GroupedPaths ==
    UNION {SeqToSet(results.exact_duplicates[m]) : m \in DOMAIN results.exact_duplicates}
    \cup UNION SimilarSets
    \cup SeqToSet(results.unique)

HashedPaths == {file_hashes[i].path : i \in 1..Len(file_hashes)}

\* C10: when the scan returns, the files whose hashing fails are exactly the
\* files listed in errors, each once, and none of them is in a group or in
\* unique; every other file is hashed once; total = cached + computed +
\* len(errors); and the scan always goes on to its return.
C10_EveryFileAccounted ==
    /\ spc = "done" =>
        /\ SeqToSet(results.errors) = {f \in Files : content[f] \in FailKinds}
        /\ NoRepeat(results.errors)
        /\ SeqToSet(results.errors) \cap GroupedPaths = {}
        /\ HashedPaths = Files \ SeqToSet(results.errors)
        /\ Len(file_hashes) = Cardinality(HashedPaths)
        /\ \A f \in HashedPaths : f \in GroupedPaths
        /\ results.total = Cardinality(Files)
        /\ results.total = results.cached + results.computed + Len(results.errors)
    /\ \A f \in pending : ENABLED HashCompleted(f)

\* a scan that returned with one error, one exact group and all three files counted
C10_Witness ==
    /\ spc = "done"
    /\ Len(results.errors) = 1
    /\ DOMAIN results.exact_duplicates # {}
    /\ results.total = 3

----------------------------------------------------------------------------
(* Claims about hamming_distance (SpecHamming) *)

\* the default hamming_threshold of scan_for_duplicates
PHASH_HAMMING_THRESHOLD == 5

\* the number of bits of a one-digit hash
HashBits == 4

\* C11: hamming_distance gives the same distance for (a, b) and (b, a), gives 0
\* for two identical hashes, and gives infinity when either argument is None:
\* a value above every threshold and above every distance between two hashes.
C11_HammingSymmetricZeroInfinity ==
    Len(hret) = 2 =>
        /\ hret[1] = hret[2]
        /\ (hargs[1] # None /\ hargs[1] = hargs[2]) => hret[1] = 0
        /\ (hargs[1] = None \/ hargs[2] = None) =>
              /\ hret[1] = Infinity
              /\ hret[1] > PHASH_HAMMING_THRESHOLD
              /\ hret[1] > HashBits
              /\ \A t \in Thresholds : ~(hret[1] <= t)
        /\ (hargs[1] # None /\ hargs[2] # None) => hret[1] \in 0..HashBits

C11_Witness ==
    /\ Len(hret) = 2
    /\ hargs = <<"3", None>>
    /\ hret = <<Infinity, Infinity>>

----------------------------------------------------------------------------
(* Claims about compare_quality (SpecCompare) *)

\* the codecs of the HEVC/H.265 family
IsHevc(codec) == codec \in {"hevc", "HEVC"}

\* one side has more than 10% more pixels than the other
MorePixels(a, b) == 10 * (a.width * a.height) > 11 * (b.width * b.height)

ResolutionDecides == \/ MorePixels(cq_args.source, cq_args.existing)
                     \/ MorePixels(cq_args.existing, cq_args.source)

CodecDecides == IsHevc(cq_args.source.codec) # IsHevc(cq_args.existing.codec)

\* C12: when one side has more than 10% more pixels than the other, the side with
\* more pixels is preferred, whatever the codecs and the file sizes are.
C12_ResolutionFirst ==
    cq_ret.returned =>
        /\ MorePixels(cq_args.source, cq_args.existing) =>
              (cq_ret.raised = None /\ cq_ret.prefer_existing = FALSE)
        /\ MorePixels(cq_args.existing, cq_args.source) =>
              (cq_ret.raised = None /\ cq_ret.prefer_existing = TRUE)

\* the scaled 3840x2160 candidate against a 1920x1080 existing file that has the
\* better codec and the smaller size
C12_Witness ==
    /\ cq_ret.returned
    /\ pixels(cq_args.source) = 12 /\ pixels(cq_args.existing) = 10
    /\ cq_args.source.codec = "h264" /\ cq_args.existing.codec = "hevc"
    /\ cq_args.source.file_size = 100 /\ cq_args.existing.file_size = 5
    /\ cq_ret.prefer_existing = FALSE

\* C13: when neither side has more than 10% more pixels, and exactly one side is
\* HEVC, that side is preferred whatever the file sizes are; when both sides or
\* neither side is HEVC the outcome is the one of the size rule.
C13_CodecSecond ==
    (cq_ret.returned /\ ~ResolutionDecides) =>
        IF CodecDecides
        THEN /\ cq_ret.raised = None
             /\ cq_ret.prefer_existing = IsHevc(cq_args.existing.codec)
             /\ cq_ret.reason.values = <<IF IsHevc(cq_args.source.codec)
                                          THEN cq_args.source.codec
                                          ELSE cq_args.existing.codec,
                                         IF IsHevc(cq_args.source.codec)
                                          THEN cq_args.existing.codec
                                          ELSE cq_args.source.codec>>
        ELSE cq_ret = compare_sizes(cq_args.source, cq_args.existing)

C13_Witness ==
    /\ cq_ret.returned
    /\ pixels(cq_args.source) = 11 /\ pixels(cq_args.existing) = 10
    /\ cq_args.source.codec = "HEVC" /\ cq_args.existing.codec = "h264"
    /\ cq_args.source.file_size = 100 /\ cq_args.existing.file_size = 5
    /\ cq_ret.prefer_existing = FALSE

\* the size rule decides and the ratio larger / smaller is defined
SizeDecides ==
    /\ ~ResolutionDecides
    /\ ~CodecDecides
    /\ cq_args.source.file_size > 0
    /\ cq_args.existing.file_size > 0

\* C14: when resolution and codec class do not decide and both file sizes are
\* positive, with ratio = larger size / smaller size: a ratio above 1.20 prefers
\* the smaller file, whichever side it is, and a ratio of at most 1.20 prefers
\* the existing file.
C14_SizeRatioRule ==
    (cq_ret.returned /\ SizeDecides) =>
        LET s == cq_args.source.file_size
            e == cq_args.existing.file_size
            larger == IF s >= e THEN s ELSE e
            smaller == IF s >= e THEN e ELSE s
        IN /\ cq_ret.raised = None
           /\ cq_ret.prefer_existing = (IF 100 * larger > 120 * smaller THEN e < s ELSE TRUE)

\* the scaled 300MB candidate against a 900MB existing file
C14_Witness ==
    /\ cq_ret.returned
    /\ SizeDecides
    /\ cq_args.source.file_size = 10 /\ cq_args.existing.file_size = 25
    /\ cq_ret.prefer_existing = FALSE

\* C15: compare_quality returns a boolean and a reason for every pair of
\* QualityInfo values, zero width, height, bitrate and file size included; it
\* never raises.
C15_CompareQualityTotal ==
    cq_ret.returned =>
        /\ cq_ret.raised = None
        /\ cq_ret.prefer_existing \in BOOLEAN
        /\ cq_ret.reason.text # ""

\* C16: the reason of every branch carries the values that were compared: the two
\* resolutions, the two codecs or the size ratio.
C16_ReasonCarriesComparison ==
    (cq_ret.returned /\ cq_ret.raised = None) => Len(cq_ret.reason.values) > 0

----------------------------------------------------------------------------
(* Claims about DuplicateDetector.find_duplicate (SpecFind) *)

\* the file names that hold a date pattern, and those holding 20240101_120000
HasDatePattern(name) == name \in {NameVid1, NameImg1, NameVid2}
HasFirstPattern(name) == name \in {NameVid1, NameImg1, BaseVid1, BaseCopy1}

RECURSIVE PathsOf(_)
PathsOf(entries) ==
    IF entries = <<>> THEN <<>> ELSE Head(entries).paths \o PathsOf(Tail(entries))

\* the indexed files that share the source's date pattern, in index order
Candidates ==
    IF HasFirstPattern(source.name)
    THEN PathsOf(SelectSeq(file_index, LAMBDA entry : HasFirstPattern(entry.base_name)))
    ELSE <<>>

\* C17: when the source filename holds no date pattern, or the index holds no
\* file for its pattern, find_duplicate examines no candidate and probes no file,
\* and returns is_duplicate = False, confidence NONE and no existing path.
C17_NoneWithoutExamining ==
    (~HasDatePattern(source.name) \/ Candidates = <<>>) =>
        /\ examined = <<>>
        /\ probed = {}
        /\ fd_ret.returned =>
              /\ fd_ret.raised = None
              /\ fd_ret.is_duplicate = FALSE
              /\ fd_ret.confidence = "NONE"
              /\ fd_ret.existing_path = None

\* a source that exists, with a date pattern the non-empty index does not hold
C17_Witness ==
    /\ fd_ret.returned
    /\ fd_ret.raised = None
    /\ source.name = NameVid2
    /\ source.kind = "v500"
    /\ Len(file_index) = 2
    /\ organized["o1"] = "v500"
    /\ fd_ret.confidence = "NONE"

\* the source is a video file with a duration
VideoWithDuration ==
    /\ source.name \in {NameVid1, NameVid2}
    /\ source.kind \notin {"gone", "empty", "nodur"}

\* the candidate is gone, has no duration, or its duration is more than the
\* tolerance (1.0 s) away from the source's
Skipped(p) ==
    \/ organized[p] \in {"gone", "empty", "nodur"}
    \/ Abs(ffprobe_duration(organized[p]) - ffprobe_duration(source.kind)) > 10

\* index of the first candidate whose duration matches, 0 if there is none
FirstLive ==
    LET live == {i \in 1..Len(Candidates) : ~Skipped(Candidates[i])} IN
    IF live = {} THEN 0 ELSE CHOOSE i \in live : \A j \in live : i <= j

\* 100 * |sizeA - sizeB| / max(sizeA, sizeB), compared with a percentage
SizeDiffAtMost(p, percent) ==
    LET a == st_size(source.kind)
        b == st_size(organized[p])
    IN 100 * Abs(a - b) <= percent * (IF a >= b THEN a ELSE b)

\* C18: for a video source, candidates are taken in index order; candidates whose
\* duration differs by more than the tolerance are skipped; when the first
\* candidate with a matching duration has a size difference ratio of at most
\* size_tolerance the search ends there: is_duplicate, prefer_existing, that
\* candidate's path, EXACT for a ratio of at most 1% and HIGH otherwise, and no
\* later candidate is examined.
C18_FirstMatchWins ==
    /\ examined = SubSeq(Candidates, 1, Len(examined))
    /\ (fd_ret.returned /\ VideoWithDuration /\ FirstLive > 0) =>
          (SizeDiffAtMost(Candidates[FirstLive], size_tolerance) =>
              /\ fd_ret.raised = None
              /\ fd_ret.is_duplicate = TRUE
              /\ fd_ret.prefer_existing = TRUE
              /\ fd_ret.existing_path = Candidates[FirstLive]
              /\ fd_ret.confidence = (IF SizeDiffAtMost(Candidates[FirstLive], 1)
                                      THEN "EXACT" ELSE "HIGH")
              /\ examined = SubSeq(Candidates, 1, FirstLive))

\* the scaled 120.0 s / 500,000,000 bytes source against 120.3 s / 498,000,000
\* bytes, after a candidate that is 1.5 s longer was skipped
C18_Witness ==
    /\ fd_ret.returned
    /\ fd_ret.raised = None
    /\ source.kind = "v500"
    /\ Len(examined) = 2
    /\ organized[examined[1]] = "v500late"
    /\ organized[examined[2]] = "v498"
    /\ fd_ret.confidence = "EXACT"
    /\ fd_ret.existing_path = examined[2]

\* get_video_quality gives a QualityInfo for the file
QualityObtained(kind) == kind \in {"v500", "v498", "v450", "v900", "v500late", "v300"}

\* C19: when the first candidate with a matching duration differs in size beyond
\* size_tolerance, the result is is_duplicate with confidence MEDIUM;
\* prefer_existing is compare_quality's verdict when a QualityInfo was obtained
\* for both files and True when it was not for either of them.
C19_MediumKeepsExistingOnFailure ==
    (fd_ret.returned /\ VideoWithDuration /\ FirstLive > 0) =>
        (~SizeDiffAtMost(Candidates[FirstLive], size_tolerance) =>
            /\ fd_ret.raised = None
            /\ fd_ret.is_duplicate = TRUE
            /\ fd_ret.confidence = "MEDIUM"
            /\ fd_ret.existing_path = Candidates[FirstLive]
            /\ fd_ret.prefer_existing =
                 (IF QualityObtained(source.kind)
                     /\ QualityObtained(organized[Candidates[FirstLive]])
                  THEN compare_quality(get_video_quality(source.kind),
                         get_video_quality(organized[Candidates[FirstLive]])).prefer_existing
                  ELSE TRUE))

\* quality extraction fails for the existing file
C19_Witness ==
    /\ fd_ret.returned
    /\ fd_ret.raised = None
    /\ fd_ret.confidence = "MEDIUM"
    /\ source.kind = "v500"
    /\ organized[fd_ret.existing_path] = "v900nq"
    /\ fd_ret.prefer_existing = TRUE

\* the candidate does not match the source on duration, or on size alone when the
\* source is no video or has no duration
NoMatch(p) ==
    IF VideoWithDuration THEN Skipped(p)
    ELSE \/ organized[p] = "gone"
         \/ /\ st_size(source.kind) + st_size(organized[p]) > 0
            /\ ~SizeDiffAtMost(p, size_tolerance)

\* C20: when there are candidates and none of them matches, every candidate is
\* examined and the result is confidence LOW, is_duplicate = False,
\* prefer_existing = False and the first candidate's path.
C20_LowAfterAllCandidates ==
    (/\ fd_ret.returned
     /\ source.kind # "gone"
     /\ Candidates # <<>>
     /\ \A i \in 1..Len(Candidates) : NoMatch(Candidates[i])) =>
        /\ fd_ret.raised = None
        /\ fd_ret.confidence = "LOW"
        /\ fd_ret.is_duplicate = FALSE
        /\ fd_ret.prefer_existing = FALSE
        /\ fd_ret.existing_path = Candidates[1]
        /\ examined = Candidates

C20_Witness ==
    /\ fd_ret.returned
    /\ fd_ret.raised = None
    /\ fd_ret.confidence = "LOW"
    /\ Len(examined) = 2
    /\ organized[examined[1]] = "v500late"
    /\ organized[examined[2]] = "v300"
    /\ source.name = NameImg1
    /\ fd_ret.existing_path = examined[1]

\* C21: a result with confidence EXACT names a file whose size differs from the
\* source's by at most 1% of the larger of the two sizes, for video and non-video
\* sources and for every configured size_tolerance.
C21_ExactMeansWithinOnePercent ==
    (fd_ret.returned /\ fd_ret.raised = None) =>
        (fd_ret.confidence = "EXACT" =>
            LET a == st_size(source.kind)
                b == st_size(organized[fd_ret.existing_path])
            IN 100 * Abs(a - b) <= (IF a >= b THEN a ELSE b))

\* a photo matched on size alone by a detector with a 50% tolerance
C21_Witness ==
    /\ fd_ret.returned
    /\ fd_ret.raised = None
    /\ fd_ret.confidence = "EXACT"
    /\ source.name = NameImg1
    /\ size_tolerance = 50
    /\ source.kind = "v500"
    /\ organized[fd_ret.existing_path] = "v498"
    /\ Len(examined) = 2

----------------------------------------------------------------------------
(* Claims about find_duplicate in its environment (SpecFindEnv) *)

\* C22: a candidate that was deleted at any moment after indexing is skipped:
\* find_duplicate never fails because a candidate path cannot be stat'ed.
C22_GoneCandidateNeverFails ==
    fd_ret.returned => fd_ret.raised # "FileNotFoundError"

\* C23: find_duplicate is never left waiting for an external probe that does not
\* answer: every wait for the prober is bounded.
C23_NoUnboundedProbeWait ==
    fpc # "hung"


----------------------------------------------------------------------------
(* Claims about blur classification (SpecBlur) *)

\* the image is readable and its edge density is below 0.02
LowTexture(f) == photo[f].blur # None /\ photo[f].density < LOW_TEXTURE_EDGE_DENSITY

\* C24: an image whose texture density is below 0.02 is never classified as
\* blurry, whatever its blur score, by scan_for_blur or by is_photo_blurry and
\* blurry_with_context with their texture filter on, whether the score was
\* computed or read from the cache.
C24_LowTextureNeverBlurry ==
    (bcall.phase = "done" /\ (bcall.fn = "scan_for_blur" \/ bcall.use_texture_filter))
        => \A f \in classified_blurry : ~LowTexture(f)

\* the files whose worker result the orchestrator does not hold yet
Uncollected == futures \cup {r.path : r \in completed}

\* C25: no worker process reads or writes the cache, and the blur score of a
\* file handed to a worker is set in the cache by the orchestrator and only
\* after the worker's result was collected.
C25_OnlyOrchestratorTouchesCache ==
    /\ \A access \in cache_log : access[1] = "main"
    /\ bcall.phase = "blur_pool" =>
         \A f \in Uncollected :
            /\ <<"main", "set_blur", f>> \notin cache_log
            /\ get_blur(inst, fstat, f) = None

C25_Witness ==
    /\ bcall.phase = "done"
    /\ bcall.fn \in {"scan_for_blur", "blurry_with_context"}
    /\ \E f \in BlurPaths :
          /\ <<"main", "set_blur", f>> \in cache_log
          /\ photo[f].blur # None
          /\ get_blur(inst, fstat, f) = photo[f].blur
          /\ f \in DOMAIN disk.content


----------------------------------------------------------------------------
(* Claims about the pairwise comparison (SpecChunks) and the groups (SpecScan) *)

\* the number of positions of the list q that hold x
Occurrences(q, x) == Cardinality({k \in 1..Len(q) : q[k] = x})

\* the pairs chunk c compares: with a threshold no distance exceeds, the
\* worker returns every pair it computed a distance for
ComparedBy(c) == compare_phash_chunk(c.start, c.end, PhashesOf(unique_by_md5), Infinity)

\* the pairs the chunks of the set cs compare, one list
RECURSIVE ComparedByAll(_)
ComparedByAll(cs) ==
    IF cs = {} THEN <<>>
    ELSE LET c == CHOOSE x \in cs : TRUE
         IN ComparedBy(c) \o ComparedByAll(cs \ {c})

----------------------------------------------------------------------------
(* Claims about the results of find_duplicate (SpecFind) *)

\* C27: every DuplicateResult find_duplicate returns has is_duplicate exactly
\* when its confidence is MEDIUM, HIGH or EXACT; has prefer_existing False when
\* is_duplicate is False; names one of the indexed candidates of the source's
\* date pattern when is_duplicate is True; and is never MEDIUM for a source
\* that is no video.
C27_ResultWellFormed ==
    (fd_ret.returned /\ fd_ret.raised = None) =>
        /\ fd_ret.is_duplicate <=> fd_ret.confidence \in {"MEDIUM", "HIGH", "EXACT"}
        /\ ~fd_ret.is_duplicate => ~fd_ret.prefer_existing
        /\ fd_ret.is_duplicate => fd_ret.existing_path \in SeqToSet(Candidates)
        /\ ~is_video_name(source.name) => fd_ret.confidence # "MEDIUM"

\* a video matched on duration alone, after a candidate that did not match
C27_Witness ==
    /\ fd_ret.returned
    /\ fd_ret.raised = None
    /\ fd_ret.confidence = "MEDIUM"
    /\ fd_ret.is_duplicate
    /\ ~fd_ret.prefer_existing
    /\ Len(examined) = 2
    /\ fd_ret.existing_path = Candidates[2]

\* C28: find_duplicate returns a DuplicateResult for every existing source and
\* every content of the index, zero-byte files included; it never raises.
C28_FindDuplicateNeverRaises ==
    (fd_ret.returned /\ source.kind # "gone") => fd_ret.raised = None


----------------------------------------------------------------------------
(* Claims about the groups of scan_for_duplicates (SpecScan) *)

\* the successfully hashed files whose content hash is md5
SameContent(md5) == {file_hashes[i].path : i \in {k \in 1..Len(file_hashes) :
                                                     file_hashes[k].md5 = md5}}

\* how many times unique and the similar groups list the file
Listings(f) ==
    Occurrences(results.unique, f)
    + Cardinality({<<i, k>> \in (1..Len(results.similar_groups)) \X (1..Len(file_hashes)) :
                      /\ k <= Len(results.similar_groups[i])
                      /\ results.similar_groups[i][k] = f})

\* the files listed in the exact-duplicate groups
ExactPaths ==
    UNION {SeqToSet(results.exact_duplicates[m]) : m \in DOMAIN results.exact_duplicates}

\* C30: when the scan returns, unique and the similar groups list exactly one
\* file, the representative, of each distinct content hash, and list it once;
\* the other files of that hash are listed in exact_duplicates only; a hash
\* with two or more files has an exact-duplicate group that holds all its
\* files, the representative included, and a hash with one file has no group.
C30_OneRepresentativePerHash ==
    spc = "done" =>
        /\ UNION SimilarSets \cup SeqToSet(results.unique) \subseteq HashedPaths
        /\ \A h \in 1..Len(file_hashes) :
             LET same == SameContent(file_hashes[h].md5)
                 listed == {f \in same : Listings(f) > 0}
                 md5 == file_hashes[h].md5
             IN /\ Cardinality(listed) = 1
                /\ \A f \in listed : Listings(f) = 1
                /\ IF Cardinality(same) >= 2
                   THEN /\ md5 \in DOMAIN results.exact_duplicates
                        /\ SeqToSet(results.exact_duplicates[md5]) = same
                        /\ NoRepeat(results.exact_duplicates[md5])
                   ELSE /\ md5 \notin DOMAIN results.exact_duplicates
                        /\ same \cap ExactPaths = {}
        /\ \A m \in DOMAIN results.exact_duplicates :
             \E h \in 1..Len(file_hashes) : file_hashes[h].md5 = m

\* two files of one content and a third, similar one: the representative of the
\* exact group shares a similar group with the third file
C30_Witness ==
    /\ spc = "done"
    /\ \E m \in DOMAIN results.exact_duplicates :
          /\ Len(results.exact_duplicates[m]) = 2
          /\ \E g \in SimilarSets :
                /\ Cardinality(g) = 2
                /\ Cardinality(g \cap SeqToSet(results.exact_duplicates[m])) = 1


----------------------------------------------------------------------------
(* Claims about process_file (SpecProcess) *)

\* find_duplicate told process_file to replace the organized file p
ReplaceDecided(p) ==
    /\ fd_ret.returned
    /\ fd_ret.raised = None
    /\ fd_ret.is_duplicate
    /\ fd_ret.confidence = "MEDIUM"
    /\ ~fd_ret.prefer_existing
    /\ fd_ret.existing_path = p

\* C29: a step of process_file removes or overwrites an organized file only
\* when find_duplicate returned is_duplicate = True, confidence MEDIUM and
\* prefer_existing = False for that file and dry_run is off; with every other
\* result, and in a dry run, the organized files stay as they are.
C29_DeletesOnlyOnReplace ==
    [][\A p \in Organized :
          (exists(organized[p]) /\ organized'[p] # organized[p])
             => (ReplaceDecided(p) /\ ~dry_run)]_vars

\* the better source took the place and the name of the organized file
C29_Witness ==
    /\ pf_ret.returned
    /\ pf_ret.code = "replaced"
    /\ ~dry_run
    /\ fd_ret.returned
    /\ fd_ret.raised = None
    /\ placed = fd_ret.existing_path
    /\ organized[placed] = source.kind

====
